---- MODULE Spec2Model ----
(***************************************************************************)
(* Model of the PDF signing tool: the coordinate mapper (client/src/lib/   *)
(* Coord.js), the fit-to-box step of the client burn and of the server     *)
(* signing endpoints, and the server's upload / signing handlers.          *)
(*                                                                         *)
(* JavaScript numbers are modelled as exact rationals n/d extended with    *)
(* the IEEE special values: d = 0 encodes +Infinity (n = 1), -Infinity     *)
(* (n = -1) and NaN (n = 0).  Binary rounding error of doubles is not      *)
(* modelled; negative zero is not distinguished from zero.                 *)
(***************************************************************************)
EXTENDS Integers, Sequences, FiniteSets, TLC

VARIABLES
  mapIn,    \* the arguments of a cssBoxToPdfPoints call
  mapOut,   \* what cssBoxToPdfPoints returned for mapIn
  mapRt,    \* what it returned for the pixel box rebuilt from mapOut.fractions
  mapPc     \* "start", "mapped", "done"

mapVars == <<mapIn, mapOut, mapRt, mapPc>>

VARIABLES
  fitIn,    \* the embedded image's size and the item's pdfBox
  fitSite,  \* which copy of the fit step ran
  fitDrawn, \* the options of the page.drawImage calls made, in order
  fitPages, \* the index of the page of each of those calls, in order
  fitError  \* the error the fit step reported to its caller, "none" if none

fitVars == <<fitIn, fitSite, fitDrawn, fitPages, fitError>>

VARIABLES
  now,            \* Date.now() on the server, in milliseconds
  blockingDbSave, \* the BLOCKING_DB_SAVE setting of signController.js
  storage,        \* the files of STORAGE_DIR: file name -> bytes
  uploadedDocs,   \* the UploadedDocument collection, in insertion order
  auditDocs,      \* the Document collection (audit records), in insertion order
  reqs            \* the HTTP requests: parameters, handler position, locals, response

srvVars == <<now, blockingDbSave, storage, uploadedDocs, auditDocs, reqs>>

VARIABLES
  edNow,             \* Date.now() in the browser, in milliseconds
  viewerWidth,       \* the width the page is rendered at
  activePage,        \* the page shown, counted from 1
  numPages,          \* the page count of the loaded document, 0 while unknown
  renderedSizes,     \* page -> the size last measured for its canvas
  canvasOffsets,     \* page -> the offset last measured for its canvas
  pageSizePointsMap, \* page -> its size in points, read when the document loads
  boxes,             \* the signature boxes, in the order they were added
  selectedIds        \* the ids of the selected boxes

VARIABLES
  pdfUrlState,       \* the document served at the URL shown, or none
  pdfData,           \* the document whose bytes are held, or none
  pdfBlob,           \* the document loaded from a local file, or none
  blobUrl,           \* the document the current object URL was made for, or none
  pdfIdState,        \* the server document selected for signing, or none
  signatureBase64,   \* the signature captured, or none
  loading,           \* the "Signing..." flag
  defaultFetch,      \* the fetch of the default PDF: "idle" or "pending"
  effectsDue,        \* state was set after an await and the effects have not run yet
  upload,            \* the uploadPdfFile call in progress
  signOps            \* the signSelected / signAllPages calls in progress

docVars == <<pdfUrlState, pdfData, pdfBlob, blobUrl, pdfIdState, signatureBase64,
             loading, defaultFetch, effectsDue, upload, signOps>>

edVars == <<edNow, viewerWidth, activePage, numPages, renderedSizes, canvasOffsets,
            pageSizePointsMap, boxes, selectedIds, docVars>>

vars == <<mapVars, fitVars, srvVars, edVars>>

notMap == <<fitVars, srvVars, edVars>>

notFit == <<mapVars, srvVars, edVars>>

notSrv == <<mapVars, fitVars, edVars>>

notEd == <<mapVars, fitVars, srvVars>>

\* ------------------------------------------------------------------------
\* Bounds of the model
\* ------------------------------------------------------------------------
\* pixel coordinates of a box are drawn from -1..MaxPx
MaxPx == 2

\* width and height of the signature image are drawn from 0..MaxImg
MaxImg == 3

\* width and height of a target point box are drawn from 0..MaxBox
MaxBox == 3

\* the server receives at most MaxReqs requests
MaxReqs == 2

\* at most MaxInFlight requests are served at a time
MaxInFlight == 2

\* the server clock runs over 0..MaxTime
MaxTime == 1

\* uploaded files have one of NumContents different contents
NumContents == 2

\* every stored PDF has NumPages pages
NumPages == 1

\* the editor holds at most MaxBoxes boxes at a time
MaxBoxes == 2

\* the browser clock runs over 0..MaxClock
MaxClock == 1

\* the documents shown in the editor have at most EditorPages pages
EditorPages == 2

\* at most MaxSignOps signing calls of the editor are in progress at a time
MaxSignOps == 2

\* ------------------------------------------------------------------------
\* JavaScript values and number arithmetic
\* ------------------------------------------------------------------------
RECURSIVE GCD(_, _)
GCD(a, b) == IF b = 0 THEN a ELSE GCD(b, a % b)

Abs(i) == IF i < 0 THEN -i ELSE i

Sign(i) == IF i < 0 THEN -1 ELSE IF i = 0 THEN 0 ELSE 1

\* the finite number n/d (d > 0) in lowest terms
Rat(n, d) ==
  LET g == GCD(Abs(n), d)
  IN  [t |-> "number", n |-> n \div g, d |-> d \div g]

Num(i) == [t |-> "number", n |-> i, d |-> 1]

NaN == [t |-> "number", n |-> 0, d |-> 0]

Infinity(s) == [t |-> "number", n |-> s, d |-> 0]

\* the JS value undefined (a missing property)
Undefined == [t |-> "undefined", n |-> 0, d |-> 0]

\* a non-empty string that does not spell a number, such as "abc"
NonNumeric == [t |-> "string", n |-> 0, d |-> 0]

IsNaN(a) == a.d = 0 /\ a.n = 0

isFinite(a) == a.t = "number" /\ a.d > 0

\* JS truthiness: undefined, 0 and NaN are falsy, a non-empty string is truthy
Truthy(v) ==
  CASE v.t = "undefined" -> FALSE
    [] v.t = "string"    -> TRUE
    [] OTHER             -> v.n # 0

\* v || dflt
OrDefault(v, dflt) == IF Truthy(v) THEN v ELSE dflt

\* Number(v)
Number(v) == IF v.t = "number" THEN v ELSE NaN

\* a * b
FMul(a, b) ==
  IF IsNaN(a) \/ IsNaN(b) THEN NaN
  ELSE IF a.d = 0 \/ b.d = 0
       THEN IF a.n = 0 \/ b.n = 0 THEN NaN
            ELSE Infinity(Sign(a.n) * Sign(b.n))
  ELSE LET g1 == GCD(Abs(a.n), b.d)
           g2 == GCD(Abs(b.n), a.d)
       IN  Rat((a.n \div g1) * (b.n \div g2), (a.d \div g2) * (b.d \div g1))

\* a / b
FDiv(a, b) ==
  IF IsNaN(a) \/ IsNaN(b) THEN NaN
  ELSE IF a.d = 0
       THEN IF b.d = 0 THEN NaN
            ELSE Infinity(a.n * (IF b.n < 0 THEN -1 ELSE 1))
  ELSE IF b.d = 0 THEN Num(0)
  ELSE IF b.n = 0
       THEN IF a.n = 0 THEN NaN ELSE Infinity(Sign(a.n))
  ELSE FMul(a, [t |-> "number", n |-> Sign(b.n) * b.d, d |-> Abs(b.n)])

\* a + b
FAdd(a, b) ==
  IF IsNaN(a) \/ IsNaN(b) THEN NaN
  ELSE IF a.d = 0
       THEN IF b.d = 0 /\ b.n # a.n THEN NaN ELSE a
  ELSE IF b.d = 0 THEN b
  ELSE LET g == GCD(a.d, b.d)
           l == (a.d \div g) * b.d
       IN  Rat(a.n * (l \div a.d) + b.n * (l \div b.d), l)

FNeg(a) == [t |-> "number", n |-> -a.n, d |-> a.d]

\* a - b
FSub(a, b) == FAdd(a, FNeg(b))

\* a > b (false when either side is NaN)
FGt(a, b) ==
  IF IsNaN(a) \/ IsNaN(b) THEN FALSE
  ELSE IF a.d = 0 THEN a.n = 1 /\ ~(b.d = 0 /\ b.n = 1)
  ELSE IF b.d = 0 THEN b.n = -1
  ELSE LET g == GCD(a.d, b.d)
       IN  a.n * (b.d \div g) > b.n * (a.d \div g)

\* a <= b on finite numbers (used by the properties only)
FLe(a, b) == ~IsNaN(a) /\ ~IsNaN(b) /\ ~FGt(a, b)

\* Math.max(a, b), Math.min(a, b)
MathMax(a, b) == IF IsNaN(a) \/ IsNaN(b) THEN NaN ELSE IF FGt(b, a) THEN b ELSE a

MathMin(a, b) == IF IsNaN(a) \/ IsNaN(b) THEN NaN ELSE IF FGt(a, b) THEN b ELSE a

\* Math.round(a): the nearest integer, ties towards +Infinity
MathRound(a) ==
  IF a.d = 0 THEN a ELSE Num((2 * a.n + a.d) \div (2 * a.d))

\* the six decimals kept by toFixed(6)
FracScale == 1000000

\* the two decimals kept by rnd
PointScale == 100

\* Number(a.toFixed(6)): the nearest multiple of 10^-6, ties away from zero
toFixed6(a) ==
  IF a.d = 0 THEN a
  ELSE LET m == FMul([t |-> "number", n |-> Abs(a.n), d |-> a.d], Num(FracScale))
           k == (2 * m.n + m.d) \div (2 * m.d)
       IN  Rat(Sign(a.n) * k, FracScale)

\* ------------------------------------------------------------------------
\* Coordinate mapper (client/src/lib/Coord.js)
\* ------------------------------------------------------------------------
\* clamp01 without its lower clamp
clamp01_NoLowerClamp(v) == MathMin(Num(1), IF isFinite(v) THEN v ELSE Num(0))

clamp01(v) == MathMax(Num(0), MathMin(Num(1), IF isFinite(v) THEN v ELSE Num(0)))

\* rounding to whole points instead of hundredths
rnd_WholePoints(v) == MathRound(v)

\* cutting the digits after the second decimal instead of rounding
rnd_Truncate(v) ==
  IF v.d = 0 THEN v
  ELSE LET m == FMul(v, Num(PointScale))
       IN  Rat(m.n \div m.d, PointScale)

rnd(v) == FDiv(MathRound(FMul(v, Num(PointScale))), Num(PointScale))

\* the division guard left out
safeDim_NoGuard(r) == r

safeDim(r) == IF FGt(r, Num(0)) THEN r ELSE Num(1)

\* the vertical position taken from the top edge alone, the height forgotten
beforeRounding_TopOnly(cssBox, renderedSize, pageSizePoints) ==
  LET left     == Number(OrDefault(cssBox.left, Num(0)))
      top      == Number(OrDefault(cssBox.top, Num(0)))
      widthPx  == Number(OrDefault(cssBox.width, Num(0)))
      heightPx == Number(OrDefault(cssBox.height, Num(0)))
      safeRW == safeDim(Number(OrDefault(renderedSize.width, Num(1))))
      safeRH == safeDim(Number(OrDefault(renderedSize.height, Num(1))))
      safePW == safeDim(Number(OrDefault(pageSizePoints.width, Num(1))))
      safePH == safeDim(Number(OrDefault(pageSizePoints.height, Num(1))))
      x_frac == clamp01(FDiv(left, safeRW))
      y_frac == clamp01(FDiv(top, safeRH))
      w_frac == clamp01(FDiv(widthPx, safeRW))
      h_frac == clamp01(FDiv(heightPx, safeRH))
  IN  [x_frac |-> x_frac, y_frac |-> y_frac, w_frac |-> w_frac, h_frac |-> h_frac,
       x_pts |-> FMul(x_frac, safePW), width_pts |-> FMul(w_frac, safePW),
       y_pts |-> FMul(clamp01(FDiv(FSub(safeRH, top), safeRH)), safePH),
       height_pts |-> FMul(h_frac, safePH)]

\* cssBoxToPdfPoints up to its return statement: the fractions and the point
\* values before they are rounded
beforeRounding(cssBox, renderedSize, pageSizePoints) ==
  LET left     == Number(OrDefault(cssBox.left, Num(0)))
      top      == Number(OrDefault(cssBox.top, Num(0)))
      widthPx  == Number(OrDefault(cssBox.width, Num(0)))
      heightPx == Number(OrDefault(cssBox.height, Num(0)))
      rW == Number(OrDefault(renderedSize.width, Num(1)))
      rH == Number(OrDefault(renderedSize.height, Num(1)))
      pW == Number(OrDefault(pageSizePoints.width, Num(1)))
      pH == Number(OrDefault(pageSizePoints.height, Num(1)))
      safeRW == safeDim(rW)
      safeRH == safeDim(rH)
      safePW == safeDim(pW)
      safePH == safeDim(pH)
      x_frac == clamp01(FDiv(left, safeRW))
      y_frac == clamp01(FDiv(top, safeRH))
      w_frac == clamp01(FDiv(widthPx, safeRW))
      h_frac == clamp01(FDiv(heightPx, safeRH))
      x_pts     == FMul(x_frac, safePW)
      width_pts == FMul(w_frac, safePW)
      bottomPx  == FSub(FSub(safeRH, top), heightPx)
      y_frac_from_bottom == clamp01(FDiv(bottomPx, safeRH))
      y_pts      == FMul(y_frac_from_bottom, safePH)
      height_pts == FMul(h_frac, safePH)
  IN  [x_frac |-> x_frac, y_frac |-> y_frac, w_frac |-> w_frac, h_frac |-> h_frac,
       x_pts |-> x_pts, width_pts |-> width_pts,
       y_pts |-> y_pts, height_pts |-> height_pts]

cssBoxToPdfPoints(cssBox, renderedSize, pageSizePoints) ==
  LET v == beforeRounding(cssBox, renderedSize, pageSizePoints)
  IN  [pdfBox |-> [x |-> rnd(v.x_pts), y |-> rnd(v.y_pts),
                   width |-> rnd(v.width_pts), height |-> rnd(v.height_pts)],
       fractions |-> [x_frac |-> toFixed6(v.x_frac), y_frac |-> toFixed6(v.y_frac),
                      w_frac |-> toFixed6(v.w_frac), h_frac |-> toFixed6(v.h_frac)]]

\* the pixel box rebuilt from stored fractions: frac * renderedSize
rebuildCssBox(fractions, renderedSize) ==
  [left   |-> FMul(fractions.x_frac, Number(renderedSize.width)),
   top    |-> FMul(fractions.y_frac, Number(renderedSize.height)),
   width  |-> FMul(fractions.w_frac, Number(renderedSize.width)),
   height |-> FMul(fractions.h_frac, Number(renderedSize.height))]

\* --- inputs of the mapper ------------------------------------------------
BoxValues == {Undefined, NonNumeric} \cup {Num(i) : i \in -1..MaxPx}

CssBoxes == [left : BoxValues, top : BoxValues, width : BoxValues, height : BoxValues]

GoodRendered == [width |-> Num(MaxPx + 1), height |-> Num(MaxPx + 1)]

GoodPage == [width |-> Num(595), height |-> Num(842)]

RenderedSizes ==
  {GoodRendered,
   [width |-> Num(MaxPx), height |-> Num(MaxPx + 1)],
   [width |-> Num(0), height |-> Num(MaxPx + 1)],
   [width |-> Num(MaxPx + 1), height |-> Num(-1)],
   [width |-> Num(-1), height |-> Num(0)],
   [width |-> Undefined, height |-> NonNumeric]}

PageSizes ==
  {GoodPage,
   [width |-> Num(0), height |-> Num(-1)],
   [width |-> Num(-1), height |-> Num(0)],
   [width |-> NonNumeric, height |-> Undefined]}

\* every rendered size with the A4 page, every page size with the square
\* rendering, and the sizes that are degenerate on both sides
SizePairs ==
  {<<r, GoodPage>> : r \in RenderedSizes}
  \cup {<<GoodRendered, p>> : p \in PageSizes}
  \cup {<<[width |-> Num(-1), height |-> Num(0)], [width |-> Num(0), height |-> Num(-1)]>>,
        <<[width |-> Undefined, height |-> NonNumeric], [width |-> NonNumeric, height |-> Undefined]>>}

\* a quarter-page box at the top left of a 200 x 400 rendering of an A4 page
ExampleInput ==
  [cssBox |-> [left |-> Num(0), top |-> Num(0), width |-> Num(100), height |-> Num(200)],
   renderedSize |-> [width |-> Num(200), height |-> Num(400)],
   pageSizePoints |-> GoodPage]

\* an A4 page with the height PDF writers store for it: 841.8898 points
A4Page == [width |-> Num(595), height |-> Rat(4209449, 5000)]

\* boxes that start at the top of the page and are as high as the rendering
FullHeightInputs ==
  {[cssBox |-> [left |-> Num(0), top |-> Num(0), width |-> Num(1), height |-> r.height],
    renderedSize |-> r, pageSizePoints |-> p] :
     r \in RenderedSizes, p \in PageSizes \cup {A4Page}}

MapInputs ==
  {[cssBox |-> b, renderedSize |-> p[1], pageSizePoints |-> p[2]] :
     b \in CssBoxes, p \in SizePairs}
  \cup {ExampleInput} \cup FullHeightInputs

NoResult == [pdfBox |-> [x |-> NaN, y |-> NaN, width |-> NaN, height |-> NaN],
             fractions |-> [x_frac |-> NaN, y_frac |-> NaN, w_frac |-> NaN, h_frac |-> NaN]]

\* no mapper call is in progress
MapIdle ==
  /\ mapIn = [cssBox |-> [left |-> Num(0), top |-> Num(0), width |-> Num(0), height |-> Num(0)],
              renderedSize |-> GoodRendered, pageSizePoints |-> GoodPage]
  /\ mapOut = NoResult
  /\ mapRt = NoResult
  /\ mapPc = "idle"

MapInit ==
  /\ mapIn \in MapInputs
  /\ mapOut = NoResult
  /\ mapRt = NoResult
  /\ mapPc = "start"

\* a caller maps a pixel box
CallMap ==
  /\ mapPc = "start"
  /\ mapOut' = cssBoxToPdfPoints(mapIn.cssBox, mapIn.renderedSize, mapIn.pageSizePoints)
  /\ mapPc' = "mapped"
  /\ UNCHANGED <<mapIn, mapRt, notMap>>

\* a caller re-projects the box from the returned fractions and maps it again
RoundTrip ==
  /\ mapPc = "mapped"
  /\ mapRt' = cssBoxToPdfPoints(rebuildCssBox(mapOut.fractions, mapIn.renderedSize),
                                mapIn.renderedSize, mapIn.pageSizePoints)
  /\ mapPc' = "done"
  /\ UNCHANGED <<mapIn, mapOut, notMap>>

MapNext == CallMap \/ RoundTrip

\* ------------------------------------------------------------------------
\* Fit step: the image drawn inside a point box, aspect ratio preserved
\* ------------------------------------------------------------------------
\* the comparison of the two ratios the wrong way round
burnInLocallyFit_Flipped(image, pdfBox) ==
  LET imgRatio == FDiv(image.width, image.height)
      boxW     == pdfBox.width
      boxH     == pdfBox.height
      boxRatio == FDiv(boxW, boxH)
      wide     == FGt(boxRatio, imgRatio)
      drawW    == IF wide THEN boxW ELSE FMul(boxH, imgRatio)
      drawH    == IF wide THEN FDiv(boxW, imgRatio) ELSE boxH
  IN  [x |-> FAdd(pdfBox.x, FDiv(FSub(boxW, drawW), Num(2))),
       y |-> FAdd(pdfBox.y, FDiv(FSub(boxH, drawH), Num(2))),
       width |-> drawW, height |-> drawH]

\* the draw rectangle left at the box's origin instead of centred
burnInLocallyFit_NotCentred(image, pdfBox) ==
  LET imgRatio == FDiv(image.width, image.height)
      boxW     == pdfBox.width
      boxH     == pdfBox.height
      wide     == FGt(imgRatio, FDiv(boxW, boxH))
  IN  [x |-> pdfBox.x, y |-> pdfBox.y,
       width |-> IF wide THEN boxW ELSE FMul(boxH, imgRatio),
       height |-> IF wide THEN FDiv(boxW, imgRatio) ELSE boxH]

\* PdfEditor.jsx, burnInLocallyMultiple: the options handed to page.drawImage
burnInLocallyFit(image, pdfBox) ==
  LET imgW     == image.width
      imgH     == image.height
      imgRatio == FDiv(imgW, imgH)
      boxW     == pdfBox.width
      boxH     == pdfBox.height
      boxRatio == FDiv(boxW, boxH)
      wide     == FGt(imgRatio, boxRatio)
      drawW    == IF wide THEN boxW ELSE FMul(boxH, imgRatio)
      drawH    == IF wide THEN FDiv(boxW, imgRatio) ELSE boxH
      offsetX  == FAdd(pdfBox.x, FDiv(FSub(boxW, drawW), Num(2)))
      offsetY  == FAdd(pdfBox.y, FDiv(FSub(boxH, drawH), Num(2)))
  IN  [x |-> offsetX, y |-> offsetY, width |-> drawW, height |-> drawH]

\* server.js, POST /api/sign-pdf
signPdfFit(image, pdfBox) ==
  LET x == pdfBox.x
      y == pdfBox.y
      boxW == pdfBox.width
      boxH == pdfBox.height
      imgW == image.width
      imgH == image.height
      imgRatio == FDiv(imgW, imgH)
      boxRatio == FDiv(boxW, boxH)
      wide  == FGt(imgRatio, boxRatio)
      drawW == IF wide THEN boxW ELSE FMul(boxH, imgRatio)
      drawH == IF wide THEN FDiv(boxW, imgRatio) ELSE boxH
      offsetX == FAdd(x, FDiv(FSub(boxW, drawW), Num(2)))
      offsetY == FAdd(y, FDiv(FSub(boxH, drawH), Num(2)))
  IN  [x |-> offsetX, y |-> offsetY, width |-> drawW, height |-> drawH]

\* the image ratio taken as height over width
signPdfMultiFit_InvertedRatio(image, pdfBox) ==
  LET boxW == pdfBox.width
      boxH == pdfBox.height
      imgRatio == FDiv(image.height, image.width)
      wide  == FGt(imgRatio, FDiv(boxW, boxH))
      drawW == IF wide THEN boxW ELSE FMul(boxH, imgRatio)
      drawH == IF wide THEN FDiv(boxW, imgRatio) ELSE boxH
  IN  [x |-> FAdd(pdfBox.x, FDiv(FSub(boxW, drawW), Num(2))),
       y |-> FAdd(pdfBox.y, FDiv(FSub(boxH, drawH), Num(2))),
       width |-> drawW, height |-> drawH]

\* server.js, POST /api/sign-pdf-multi, the body of the loop over items
signPdfMultiFit(image, pdfBox) ==
  LET x == pdfBox.x
      y == pdfBox.y
      boxW == pdfBox.width
      boxH == pdfBox.height
      imgW == image.width
      imgH == image.height
      imgRatio == FDiv(imgW, imgH)
      boxRatio == FDiv(boxW, boxH)
      wide  == FGt(imgRatio, boxRatio)
      drawW == IF wide THEN boxW ELSE FMul(boxH, imgRatio)
      drawH == IF wide THEN FDiv(boxW, imgRatio) ELSE boxH
      offsetX == FAdd(x, FDiv(FSub(boxW, drawW), Num(2)))
      offsetY == FAdd(y, FDiv(FSub(boxH, drawH), Num(2)))
  IN  [x |-> offsetX, y |-> offsetY, width |-> drawW, height |-> drawH]

\* the image aligned with the top edge of the box instead of centred
signPdfHandlerFit_TopAligned(image, pdfBox) ==
  LET boxW == pdfBox.width
      boxH == pdfBox.height
      imgRatio == FDiv(image.width, image.height)
      wide  == FGt(imgRatio, FDiv(boxW, boxH))
      drawW == IF wide THEN boxW ELSE FMul(boxH, imgRatio)
      drawH == IF wide THEN FDiv(boxW, imgRatio) ELSE boxH
  IN  [x |-> FAdd(pdfBox.x, FDiv(FSub(boxW, drawW), Num(2))),
       y |-> FAdd(pdfBox.y, FSub(boxH, drawH)),
       width |-> drawW, height |-> drawH]

\* server/controllers/signController.js, signPdfHandler
signPdfHandlerFit(image, pdfBox) ==
  LET x == pdfBox.x
      y == pdfBox.y
      boxW == pdfBox.width
      boxH == pdfBox.height
      imgW == image.width
      imgH == image.height
      imgRatio == FDiv(imgW, imgH)
      boxRatio == FDiv(boxW, boxH)
      wide  == FGt(imgRatio, boxRatio)
      drawW == IF wide THEN boxW ELSE FMul(boxH, imgRatio)
      drawH == IF wide THEN FDiv(boxW, imgRatio) ELSE boxH
      offsetX == FAdd(x, FDiv(FSub(boxW, drawW), Num(2)))
      offsetY == FAdd(y, FDiv(FSub(boxH, drawH), Num(2)))
  IN  [x |-> offsetX, y |-> offsetY, width |-> drawW, height |-> drawH]

\* --- inputs of the fit step ----------------------------------------------
Images == {[width |-> Num(w), height |-> Num(h)] : w \in 0..MaxImg, h \in 0..MaxImg}

PdfBoxes ==
  {[x |-> Num(x), y |-> Num(y), width |-> Num(w), height |-> Num(h)] :
     x \in {0, 1}, y \in {0, 1}, w \in 0..MaxBox, h \in 0..MaxBox}

\* no fit step is in progress
FitIdle ==
  /\ fitIn = [image |-> [width |-> Num(1), height |-> Num(1)],
              pdfBox |-> [x |-> Num(0), y |-> Num(0), width |-> Num(1), height |-> Num(1)],
              pageIndex |-> 0]
  /\ fitSite = "idle"
  /\ fitDrawn = <<>>
  /\ fitPages = <<>>
  /\ fitError = "none"

\* a 200 x 100 image for the 50 x 50 box at (10, 10) of the first page
ExampleFit ==
  [image |-> [width |-> Num(200), height |-> Num(100)],
   pdfBox |-> [x |-> Num(10), y |-> Num(10), width |-> Num(50), height |-> Num(50)],
   pageIndex |-> 0]

\* the embedded image and one item of an existing page
FitInputs ==
  [image : Images, pdfBox : PdfBoxes, pageIndex : 0..(NumPages - 1)] \cup {ExampleFit}

FitInit ==
  /\ fitIn \in FitInputs
  /\ fitSite = "none"
  /\ fitDrawn = <<>>
  /\ fitPages = <<>>
  /\ fitError = "none"

\* the browser burns the image into one exported item
BurnInLocallyDraw ==
  /\ fitSite = "none"
  /\ fitSite' = "burnInLocallyMultiple"
  /\ fitDrawn' = Append(fitDrawn, burnInLocallyFit(fitIn.image, fitIn.pdfBox))
  /\ fitPages' = Append(fitPages, fitIn.pageIndex)
  /\ UNCHANGED <<fitIn, fitError, notFit>>

SignPdfDraw ==
  /\ fitSite = "none"
  /\ fitSite' = "sign-pdf"
  /\ fitDrawn' = Append(fitDrawn, signPdfFit(fitIn.image, fitIn.pdfBox))
  /\ fitPages' = Append(fitPages, fitIn.pageIndex)
  /\ UNCHANGED <<fitIn, fitError, notFit>>

SignPdfMultiDraw ==
  /\ fitSite = "none"
  /\ fitSite' = "sign-pdf-multi"
  /\ fitDrawn' = Append(fitDrawn, signPdfMultiFit(fitIn.image, fitIn.pdfBox))
  /\ fitPages' = Append(fitPages, fitIn.pageIndex)
  /\ UNCHANGED <<fitIn, fitError, notFit>>

SignPdfHandlerDraw ==
  /\ fitSite = "none"
  /\ fitSite' = "signPdfHandler"
  /\ fitDrawn' = Append(fitDrawn, signPdfHandlerFit(fitIn.image, fitIn.pdfBox))
  /\ fitPages' = Append(fitPages, fitIn.pageIndex)
  /\ UNCHANGED <<fitIn, fitError, notFit>>

FitNext == BurnInLocallyDraw \/ SignPdfDraw \/ SignPdfMultiDraw \/ SignPdfHandlerDraw

\* ------------------------------------------------------------------------
\* Server (server/server.js, server/controllers/signController.js)
\* ------------------------------------------------------------------------
\* File contents.  An uploaded PDF is identified by src; a signed PDF records
\* the original it was made from, the embedded signature and the drawImage
\* calls.  Metadata that pdf-lib stamps on save is not modelled.
NoBytes == [src |-> 0, sig |-> 0, draws |-> <<>>]

Pdf(c) == [src |-> c, sig |-> 0, draws |-> <<>>]

\* SHA-256 as a collision-free digest of the bytes
sha256Hex(bytes) == [sha256 |-> bytes]

computeFileSha256Hex(files, filePath) == sha256Hex(files[filePath])

NoHash == [sha256 |-> NoBytes]

\* A file name is the sequence of the parts its stem has between dashes, and
\* its extension: doc-12-signed-15.pdf is <<Word("doc"), Stamp(12),
\* Word("signed"), Stamp(15)>> with extension "pdf".  A pdfId is a stem.
Word(w) == [w |-> w, n |-> 0]

Stamp(t) == [w |-> "#", n |-> t]

NoFile == [stem |-> <<>>, ext |-> ""]

NoPdfId == <<>>

\* multer's filename: `${base}-${Date.now()}.pdf`
uploadFilename(originalname, t) == [stem |-> originalname \o <<Stamp(t)>>, ext |-> "pdf"]

\* filename.replace(/\.pdf$/i, '')
pdfIdOf(filename) == filename.stem

\* `${pdfId}.pdf` in STORAGE_DIR
origPathOf(pdfId) == [stem |-> pdfId, ext |-> "pdf"]

\* `${pdfId}-signed-${Date.now()}.pdf` (sign-pdf and signPdfHandler)
signedName(pdfId, t) == [stem |-> pdfId \o <<Word("signed"), Stamp(t)>>, ext |-> "pdf"]

\* `${pdfId}-signed-multi-${Date.now()}.pdf`
signedMultiName(pdfId, t) ==
  [stem |-> pdfId \o <<Word("signed"), Word("multi"), Stamp(t)>>, ext |-> "pdf"]

outNameOf(kind, pdfId, t) ==
  IF kind = "sign-pdf-multi" THEN signedMultiName(pdfId, t) ELSE signedName(pdfId, t)

\* `/storage/${name}`, and the absolute path signPdfHandler records instead
publicPath(name) == [root |-> "/storage", file |-> name]

fsPath(name) == [root |-> "server/storage", file |-> name]

NoPath == [root |-> "", file |-> NoFile]

writeFile(files, name, bytes) ==
  [n \in (DOMAIN files) \cup {name} |-> IF n = name THEN bytes ELSE files[n]]

unlink(files, name) == [n \in (DOMAIN files) \ {name} |-> files[n]]

NoDoc == [pdfId |-> NoPdfId, pdfPath |-> NoPath, pdfHash |-> NoHash, originalFilename |-> <<>>]

\* UploadedDocument.findOne({ pdfHash }): the first match in insertion order
findOne(docs, pdfHash) ==
  LET hits == {i \in 1..Len(docs) : docs[i].pdfHash = pdfHash}
  IN  IF hits = {} THEN NoDoc
      ELSE docs[CHOOSE i \in hits : \A j \in hits : i <= j]

NoResp == [status |-> 0, exists |-> FALSE, pdfId |-> NoPdfId, url |-> NoPath,
           beforeHash |-> NoHash, afterHash |-> NoHash]

NoReq ==
  [kind |-> "none", pc |-> "unsent",
   originalname |-> <<>>, file |-> NoBytes, bodyHash |-> NoHash,
   filename |-> NoFile, pdfHash |-> NoHash, existing |-> NoDoc,
   pdfId |-> NoPdfId, items |-> <<>>, sig |-> 0,
   bytes |-> NoBytes, beforeHash |-> NoHash, outBytes |-> NoBytes,
   afterHash |-> NoHash, outName |-> NoFile, docs |-> <<>>, db |-> "none",
   resp |-> NoResp]

Reqs == 1..MaxReqs

\* res.status(code).json({ error })
errorResp(code) == [NoResp EXCEPT !.status = code]

\* --- request parameters ---------------------------------------------------
\* the names of the files uploaded, without the extension: doc.pdf, and a
\* file named as a stored document with -signed appended
OriginalNames == {<<Word("doc")>>, <<Word("doc"), Stamp(0 - 1), Word("signed")>>}

\* the contents uploaded so far; a new upload carries one of them or the next
\* unused content (contents are interchangeable)
UploadedContents == ({reqs[r].file.src : r \in Reqs} \cup {storage[n].src : n \in DOMAIN storage}) \ {0}

NextContents == {c \in 1..NumContents : c = 1 \/ (c - 1) \in UploadedContents}

\* a body without a file, or a file with no pdfHash field, with the hash of
\* the file, or with the hash of some other content
UploadBodies ==
  {[file |-> NoBytes, bodyHash |-> NoHash]}
  \cup {[file |-> Pdf(c), bodyHash |-> h] :
          c \in NextContents,
          h \in {NoHash} \cup {sha256Hex(Pdf(k)) : k \in 1..NumContents}}

\* the one signature image the requests carry: a PNG two pixels by one
SigImage == [width |-> Num(2), height |-> Num(1)]

ItemBox == [x |-> Num(1), y |-> Num(1), width |-> Num(2), height |-> Num(2)]

Item(p) == [pageIndex |-> p, pdfBox |-> ItemBox]

SignKinds == {"sign-pdf", "sign-pdf-multi", "signPdfHandler"}

\* the item lists of a well-formed body; page index NumPages is past the last page
ItemLists(kind) ==
  IF kind = "sign-pdf-multi"
  THEN {<<Item(0), Item(0)>>, <<Item(0), Item(NumPages)>>}
  ELSE {<<Item(p)>> : p \in 0..NumPages}

StoredPdfIds == {uploadedDocs[i].pdfId : i \in 1..Len(uploadedDocs)}

\* the bodies of signing requests: well-formed ones for the ids of the stored
\* records, one for an id that names no file, one without pdfId and one
\* without items (or pageIndex / pdfBox)
SignBodies(kind) ==
  {[pdfId |-> id, items |-> its, sig |-> 1] : id \in StoredPdfIds, its \in ItemLists(kind)}
  \cup {[pdfId |-> <<Word("gone")>>, items |-> <<Item(0)>>, sig |-> 1],
        [pdfId |-> NoPdfId, items |-> <<Item(0)>>, sig |-> 1],
        [pdfId |-> <<Word("gone")>>, items |-> <<>>, sig |-> 1]}

\* the requests being served, the audit write of a signing included
InFlight == {r \in Reqs : reqs[r].kind # "none" /\ (reqs[r].pc # "done" \/ reqs[r].db = "pending")}

\* requests take the slots of reqs in order
Unsent(r) ==
  /\ reqs[r].kind = "none"
  /\ IF r = 1 THEN TRUE ELSE reqs[r - 1].kind # "none"
  /\ Cardinality(InFlight) < MaxInFlight

\* --- POST /api/upload-pdf -------------------------------------------------
\* the request arrives and multer stores the file under its generated name
UploadArrives(r) ==
  /\ Unsent(r)
  /\ \E name \in OriginalNames, body \in UploadBodies :
       LET filename == IF body.file = NoBytes THEN NoFile ELSE uploadFilename(name, now)
       IN  /\ reqs' = [reqs EXCEPT ![r] =
                         [NoReq EXCEPT !.kind = "upload", !.pc = "handler",
                                       !.originalname = name, !.file = body.file,
                                       !.bodyHash = body.bodyHash, !.filename = filename]]
           /\ storage' = IF body.file = NoBytes THEN storage
                         ELSE writeFile(storage, filename, body.file)
  /\ UNCHANGED <<now, blockingDbSave, uploadedDocs, auditDocs, notSrv>>

\* the handler up to the hash: no file is a 400; the hash is the body's, or
\* else the stored file's (left undefined when the file cannot be read)
UploadHash(r) ==
  LET q == reqs[r]
      pdfHash == IF q.bodyHash # NoHash THEN q.bodyHash
                 ELSE IF q.filename \in DOMAIN storage
                      THEN computeFileSha256Hex(storage, q.filename)
                      ELSE NoHash
  IN  /\ q.kind = "upload" /\ q.pc = "handler"
      /\ reqs' = [reqs EXCEPT ![r] =
                    IF q.file = NoBytes
                    THEN [q EXCEPT !.pc = "done", !.resp = errorResp(400)]
                    ELSE [q EXCEPT !.pdfHash = pdfHash,
                                   !.pc = IF pdfHash # NoHash THEN "find" ELSE "create"]]
      /\ UNCHANGED <<now, blockingDbSave, storage, uploadedDocs, auditDocs, notSrv>>

\* UploadedDocument.findOne({ pdfHash }) returns, or throws (500)
UploadFindOne(r) ==
  LET q == reqs[r]
      existing == findOne(uploadedDocs, q.pdfHash)
  IN  /\ q.kind = "upload" /\ q.pc = "find"
      /\ \E dbOk \in BOOLEAN :
           reqs' = [reqs EXCEPT ![r] =
                      IF ~dbOk THEN [q EXCEPT !.pc = "done", !.resp = errorResp(500)]
                      ELSE [q EXCEPT !.existing = existing,
                                     !.pc = IF existing # NoDoc THEN "unlink" ELSE "create"]]
      /\ UNCHANGED <<now, blockingDbSave, storage, uploadedDocs, auditDocs, notSrv>>

\* a duplicate: the file just stored is deleted and the existing record returned
UploadUnlinkDuplicate(r) ==
  LET q == reqs[r]
  IN  /\ q.kind = "upload" /\ q.pc = "unlink"
      /\ storage' = unlink(storage, q.filename)
      /\ reqs' = [reqs EXCEPT ![r] =
                    [q EXCEPT !.pc = "done",
                              !.resp = [NoResp EXCEPT !.status = 200, !.exists = TRUE,
                                                      !.url = q.existing.pdfPath,
                                                      !.pdfId = q.existing.pdfId]]]
      /\ UNCHANGED <<now, blockingDbSave, uploadedDocs, auditDocs, notSrv>>

\* the record UploadedDocument.create is given (the size field is left out)
uploadRecord(q) ==
  [pdfId |-> pdfIdOf(q.filename), pdfPath |-> publicPath(q.filename),
   pdfHash |-> q.pdfHash, originalFilename |-> q.originalname]

\* UploadedDocument.create: rejected when pdfHash is null (required), when the
\* pdfId is taken (unique), or when the database fails; all of these are a 500
UploadCreate(r) ==
  LET q == reqs[r]
      rejected == \/ q.pdfHash = NoHash
                  \/ \E i \in 1..Len(uploadedDocs) :
                        uploadedDocs[i].pdfId = pdfIdOf(q.filename)
  IN  /\ q.kind = "upload" /\ q.pc = "create"
      /\ \E dbOk \in BOOLEAN :
           IF rejected \/ ~dbOk
           THEN /\ reqs' = [reqs EXCEPT ![r] =
                              [q EXCEPT !.pc = "done", !.resp = errorResp(500)]]
                /\ UNCHANGED uploadedDocs
           ELSE /\ uploadedDocs' = Append(uploadedDocs, uploadRecord(q))
                /\ reqs' = [reqs EXCEPT ![r] =
                              [q EXCEPT !.pc = "done",
                                        !.resp = [NoResp EXCEPT
                                                    !.status = 200, !.exists = FALSE,
                                                    !.pdfId = pdfIdOf(q.filename),
                                                    !.url = publicPath(q.filename)]]]
      /\ UNCHANGED <<now, blockingDbSave, storage, auditDocs, notSrv>>

\* --- POST /api/sign-pdf, POST /api/sign-pdf-multi, signPdfHandler ---------
\* the request arrives; a body with a field missing is answered 400 at once
SignArrives(r) ==
  /\ Unsent(r)
  /\ \E kind \in SignKinds :
       \E body \in SignBodies(kind) :
         LET q == [NoReq EXCEPT !.kind = kind, !.pdfId = body.pdfId,
                                !.items = body.items, !.sig = body.sig]
             missing == body.pdfId = NoPdfId \/ body.items = <<>> \/ body.sig = 0
         IN  reqs' = [reqs EXCEPT ![r] =
                        IF missing THEN [q EXCEPT !.pc = "done", !.resp = errorResp(400)]
                        ELSE [q EXCEPT !.pc = IF kind = "signPdfHandler"
                                                THEN "read" ELSE "stat"]]
  /\ UNCHANGED <<now, blockingDbSave, storage, uploadedDocs, auditDocs, notSrv>>

\* fs.stat(origPath): a missing original is a 400 (server.js only)
SignStat(r) ==
  LET q == reqs[r]
  IN  /\ q.kind \in {"sign-pdf", "sign-pdf-multi"} /\ q.pc = "stat"
      /\ reqs' = [reqs EXCEPT ![r] =
                    IF origPathOf(q.pdfId) \in DOMAIN storage
                    THEN [q EXCEPT !.pc = "read"]
                    ELSE [q EXCEPT !.pc = "done", !.resp = errorResp(400)]]
      /\ UNCHANGED <<now, blockingDbSave, storage, uploadedDocs, auditDocs, notSrv>>

\* the fit step of the handler that serves the request
fitOf(kind, image, pdfBox) ==
  CASE kind = "sign-pdf"       -> signPdfFit(image, pdfBox)
    [] kind = "sign-pdf-multi" -> signPdfMultiFit(image, pdfBox)
    [] OTHER                   -> signPdfHandlerFit(image, pdfBox)

\* the document after the image is embedded and drawn for every item
drawItems(kind, bytes, sig, items) ==
  [src |-> bytes.src, sig |-> sig,
   draws |-> [i \in 1..Len(items) |->
                [pageIndex |-> items[i].pageIndex,
                 rect |-> fitOf(kind, SigImage, items[i].pdfBox)]]]

\* fs.readFile, PDFDocument.load, embed, getPage and drawImage; a missing
\* file or a page index out of range throws (500)
SignLoadAndDraw(r) ==
  LET q == reqs[r]
      origPath == origPathOf(q.pdfId)
      throws == \/ origPath \notin DOMAIN storage
                \/ \E i \in 1..Len(q.items) : q.items[i].pageIndex \notin 0..(NumPages - 1)
  IN  /\ q.kind \in SignKinds /\ q.pc = "read"
      /\ reqs' = [reqs EXCEPT ![r] =
                    IF throws THEN [q EXCEPT !.pc = "done", !.resp = errorResp(500)]
                    ELSE [q EXCEPT !.bytes = storage[origPath],
                                   !.beforeHash = sha256Hex(storage[origPath]),
                                   !.outBytes = drawItems(q.kind, storage[origPath],
                                                          q.sig, q.items),
                                   !.pc = "save"]]
      /\ UNCHANGED <<now, blockingDbSave, storage, uploadedDocs, auditDocs, notSrv>>

\* pdfDoc.save() is done: the output is hashed and named after Date.now()
SignSave(r) ==
  LET q == reqs[r]
  IN  /\ q.kind \in SignKinds /\ q.pc = "save"
      /\ reqs' = [reqs EXCEPT ![r] =
                    [q EXCEPT !.afterHash = sha256Hex(q.outBytes),
                              !.outName = outNameOf(q.kind, q.pdfId, now),
                              !.pc = "write"]]
      /\ UNCHANGED <<now, blockingDbSave, storage, uploadedDocs, auditDocs, notSrv>>

\* only the first item is recorded
docsToCreate_FirstItemOnly(q) ==
  [i \in 1..1 |->
     [pdfId |-> q.pdfId, pageIndex |-> q.items[i].pageIndex,
      pdfPathOriginal |-> publicPath(origPathOf(q.pdfId)),
      pdfPathSigned |-> publicPath(q.outName),
      beforeHash |-> q.beforeHash, afterHash |-> q.afterHash,
      mime |-> "image/png"]]

\* the audit records of a request: one for sign-pdf and signPdfHandler (which
\* records absolute paths), one per item for sign-pdf-multi
docsToCreate(q) ==
  [i \in 1..Len(q.items) |->
     [pdfId |-> q.pdfId, pageIndex |-> q.items[i].pageIndex,
      pdfPathOriginal |-> IF q.kind = "signPdfHandler" THEN fsPath(origPathOf(q.pdfId))
                          ELSE publicPath(origPathOf(q.pdfId)),
      pdfPathSigned |-> IF q.kind = "signPdfHandler" THEN fsPath(q.outName)
                        ELSE publicPath(q.outName),
      beforeHash |-> q.beforeHash, afterHash |-> q.afterHash,
      mime |-> "image/png"]]

successResp(q) ==
  [NoResp EXCEPT !.status = 200, !.url = publicPath(q.outName),
                 !.beforeHash = q.beforeHash, !.afterHash = q.afterHash]

\* fs.writeFile lands; the audit write is issued and, unless signPdfHandler
\* runs with BLOCKING_DB_SAVE, the success response is sent without waiting
SignWrite(r) ==
  LET q == reqs[r]
      blocking == q.kind = "signPdfHandler" /\ blockingDbSave
  IN  /\ q.kind \in SignKinds /\ q.pc = "write"
      /\ storage' = writeFile(storage, q.outName, q.outBytes)
      /\ reqs' = [reqs EXCEPT ![r] =
                    IF blocking
                    THEN [q EXCEPT !.docs = docsToCreate(q), !.db = "pending",
                                   !.pc = "dbwait"]
                    ELSE [q EXCEPT !.docs = docsToCreate(q), !.db = "pending",
                                   !.pc = "done", !.resp = successResp(q)]]
      /\ UNCHANGED <<now, blockingDbSave, uploadedDocs, auditDocs, notSrv>>

\* DocumentModel.create / insertMany succeeds
AuditSaved(r) ==
  LET q == reqs[r]
  IN  /\ q.db = "pending"
      /\ auditDocs' = auditDocs \o q.docs
      /\ reqs' = [reqs EXCEPT ![r] =
                    IF q.pc = "dbwait"
                    THEN [q EXCEPT !.db = "ok", !.pc = "done", !.resp = successResp(q)]
                    ELSE [q EXCEPT !.db = "ok"]]
      /\ UNCHANGED <<now, blockingDbSave, storage, uploadedDocs, notSrv>>

\* DocumentModel.create / insertMany fails: logged, and a 500 only when
\* the handler was waiting for it
AuditFailed(r) ==
  LET q == reqs[r]
  IN  /\ q.db = "pending"
      /\ reqs' = [reqs EXCEPT ![r] =
                    IF q.pc = "dbwait"
                    THEN [q EXCEPT !.db = "failed", !.pc = "done", !.resp = errorResp(500)]
                    ELSE [q EXCEPT !.db = "failed"]]
      /\ UNCHANGED <<now, blockingDbSave, storage, uploadedDocs, auditDocs, notSrv>>

\* a millisecond passes
Tick ==
  /\ now < MaxTime
  /\ now' = now + 1
  /\ UNCHANGED <<blockingDbSave, storage, uploadedDocs, auditDocs, reqs, notSrv>>

\* a file uploaded before the server was last started: storage and database
\* outlive the process
EarlierFile == uploadFilename(<<Word("doc")>>, 0 - 1)

EarlierRecord ==
  [pdfId |-> pdfIdOf(EarlierFile), pdfPath |-> publicPath(EarlierFile),
   pdfHash |-> sha256Hex(Pdf(1)), originalFilename |-> <<Word("doc")>>]

\* the server as it starts: storage and collections empty, or holding one
\* document uploaded earlier
SrvInit ==
  /\ now = 0
  /\ blockingDbSave \in BOOLEAN
  /\ \E earlier \in BOOLEAN :
       /\ storage = IF earlier THEN [n \in {EarlierFile} |-> Pdf(1)]
                     ELSE [n \in {} |-> NoBytes]
       /\ uploadedDocs = IF earlier THEN <<EarlierRecord>> ELSE <<>>
  /\ auditDocs = <<>>
  /\ reqs = [r \in Reqs |-> NoReq]

\* the server is not running
SrvIdle ==
  /\ now = 0
  /\ blockingDbSave = FALSE
  /\ storage = [n \in {} |-> NoBytes]
  /\ uploadedDocs = <<>>
  /\ auditDocs = <<>>
  /\ reqs = [r \in Reqs |-> NoReq]

SrvNext ==
  \/ Tick
  \/ \E r \in Reqs :
       \/ UploadArrives(r) \/ UploadHash(r) \/ UploadFindOne(r)
       \/ UploadUnlinkDuplicate(r) \/ UploadCreate(r)
       \/ SignArrives(r) \/ SignStat(r) \/ SignLoadAndDraw(r)
       \/ SignSave(r) \/ SignWrite(r) \/ AuditSaved(r) \/ AuditFailed(r)

\* ------------------------------------------------------------------------
\* Editor (client/src/components/PdfEditor.jsx)
\* ------------------------------------------------------------------------
\* useState(800)
InitialViewerWidth == 800

\* --- documents ------------------------------------------------------------
\* A document is named by what it holds; null is NoPdf.
NoPdf == "none"

\* the defaultPdf prop, /sample.pdf
DefaultPdf == "default"

\* the PDF files the user picks, and the documents a pdfUrl prop names
UserDocs == {"short", "long"}

DocPages(d) == IF d = "long" THEN EditorPages ELSE 1

NoSignature == "none"

\* the file react-pdf's Document is given
fileProp ==
  IF pdfUrlState # NoPdf THEN pdfUrlState
  ELSE IF blobUrl # NoPdf THEN blobUrl
  ELSE IF pdfData # NoPdf THEN pdfData
  ELSE DefaultPdf

\* the source signSelected and signAllPages take: the bytes of pdfBlob, else
\* of pdfData, else the server document pdfIdState (NoPdf: none to sign)
signSource ==
  IF pdfBlob # NoPdf THEN pdfBlob
  ELSE IF pdfData # NoPdf THEN pdfData
  ELSE pdfIdState

NoUpload == [pc |-> "idle", file |-> NoPdf]

\* uploading is true exactly while the POST /api/upload-pdf is awaited
uploading == upload.pc = "posting"

\* localFileName is set and cleared together with pdfBlob
localFileName == pdfBlob

SignOps == 1..MaxSignOps

\* the position of a signing call: "idle", "reading", "burning" or "posting"
NoSignOp == "idle"

\* the widths recompute() sets for the containers the window is resized to
ViewerWidths == {400, 800}

Pages == 1..EditorPages

\* an entry missing from renderedSizes or pageSizePointsMap
NoSize == [width |-> Undefined, height |-> Undefined]

\* an entry missing from canvasOffsets
NoOffset == [left |-> Undefined, top |-> Undefined]

\* every page of the document shown is 595 x 842 points
DocPageSize(p) == GoodPage

\* { width: viewerWidth, height: Math.round(viewerWidth * 1.3) }
fallbackSize == [width |-> Num(viewerWidth),
                 height |-> MathRound(FMul(Num(viewerWidth), Rat(13, 10)))]

\* renderedSizes[page] || { width: viewerWidth, ... }
sizeOfPage(p) == IF renderedSizes[p] = NoSize THEN fallbackSize ELSE renderedSizes[p]

\* canvasOffsets[page] || { left: 0, top: 0 }, read as offset.left || 0
offsetOfPage(p) ==
  [left |-> OrDefault(canvasOffsets[p].left, Num(0)),
   top  |-> OrDefault(canvasOffsets[p].top, Num(0))]

getPageOffsetAndSize(pageIndexOne) ==
  [offset |-> offsetOfPage(pageIndexOne), size |-> sizeOfPage(pageIndexOne)]

\* pageSizePointsMap[page] || { width: 595, height: 842 }
pagePtsOf(p) == IF pageSizePointsMap[p] = NoSize THEN GoodPage ELSE pageSizePointsMap[p]

\* exportCoords once the offset and size of the page (os) and its size in
\* points (pagePts) have been read
exportCoordsFrom(box, os, pagePts) ==
  LET pageIndexOne == box.pageIndex
      localLeft == FSub(box.left, os.offset.left)
      localTop  == FSub(box.top, os.offset.top)
      cssBox    == [left |-> localLeft, top |-> localTop,
                    width |-> box.width, height |-> box.height]
      out       == cssBoxToPdfPoints(cssBox, os.size, pagePts)
  IN  [pageIndex |-> pageIndexOne - 1, pdfBox |-> out.pdfBox,
       fractions |-> out.fractions, pageSizePoints |-> pagePts]

exportCoords(box) ==
  exportCoordsFrom(box, getPageOffsetAndSize(box.pageIndex), pagePtsOf(box.pageIndex))

\* the box addBox appends
newBox ==
  LET pageRendered == sizeOfPage(activePage)
      defaultW == MathRound(FMul(pageRendered.width, Rat(3, 10)))
      defaultH == MathRound(FMul(defaultW, Rat(35, 100)))
      left     == MathMax(Num(8), MathRound(FMul(pageRendered.width, Rat(1, 10))))
      top      == MathMax(Num(8), MathRound(FMul(pageRendered.height, Rat(6, 10))))
  IN  [id |-> edNow, left |-> left, top |-> top, width |-> defaultW, height |-> defaultH,
       pageIndex |-> activePage,
       x_frac |-> FDiv(left, OrDefault(pageRendered.width, Num(1))),
       y_frac |-> FDiv(top, OrDefault(pageRendered.height, Num(1))),
       w_frac |-> FDiv(defaultW, OrDefault(pageRendered.width, Num(1))),
       h_frac |-> FDiv(defaultH, OrDefault(pageRendered.height, Num(1)))]

\* Math.max(0, Math.min(1, v)) as updateBox writes it
clampFrac(v) == MathMax(Num(0), MathMin(Num(1), v))

\* updateBox for one box b and a patch of left, top, width and height
\* (a field the patch does not carry is Undefined)
patched(b, patch) ==
  LET pick(new, old) == IF new = Undefined THEN old ELSE new
      left   == pick(patch.left, b.left)
      top    == pick(patch.top, b.top)
      width  == pick(patch.width, b.width)
      height == pick(patch.height, b.height)
      size   == sizeOfPage(b.pageIndex)
  IN  IF patch.left = Undefined /\ patch.top = Undefined
         /\ patch.width = Undefined /\ patch.height = Undefined THEN b
      ELSE
      [b EXCEPT !.left = left, !.top = top, !.width = width, !.height = height,
         !.x_frac = clampFrac(FDiv(OrDefault(left, Num(0)), OrDefault(size.width, Num(1)))),
         !.y_frac = clampFrac(FDiv(OrDefault(top, Num(0)), OrDefault(size.height, Num(1)))),
         !.w_frac = clampFrac(FDiv(OrDefault(width, Num(0)), OrDefault(size.width, Num(1)))),
         !.h_frac = clampFrac(FDiv(OrDefault(height, Num(0)), OrDefault(size.height, Num(1))))]

updateBox(s, id, patch) ==
  [i \in 1..Len(s) |-> IF s[i].id # id THEN s[i] ELSE patched(s[i], patch)]

\* s.filter((b) => b.id !== id)
removeBoxFrom(s, id) == SelectSeq(s, LAMBDA b : b.id # id)

BoxIds == {boxes[i].id : i \in 1..Len(boxes)}

\* the boxes rendered on the overlay of the active page
boxesForActivePage == {i \in 1..Len(boxes) : boxes[i].pageIndex = activePage}

\* --- what the user and the browser supply ---------------------------------
\* where a drag can stop, relative to the overlay (Rnd keeps the box inside it)
DragPositions == {[x |-> Num(40), y |-> Num(60)]}

\* the sizes a resize can stop at
ResizeSizes == {[width |-> Num(100), height |-> Num(50)]}

\* where the canvas can lie inside the page wrapper
MeasuredOffsets == {[left |-> Num(2), top |-> Num(0)]}

\* --- handlers --------------------------------------------------------------
\* the editor once the component is mounted without a pdfUrl prop and its
\* effects have run: the default PDF is being fetched
EdInit ==
  /\ edNow = 0
  /\ viewerWidth = InitialViewerWidth
  /\ activePage = 1
  /\ numPages = 0
  /\ renderedSizes = [p \in Pages |-> NoSize]
  /\ canvasOffsets = [p \in Pages |-> NoOffset]
  /\ pageSizePointsMap = [p \in Pages |-> NoSize]
  /\ boxes = <<>>
  /\ selectedIds = {}
  /\ pdfUrlState = NoPdf
  /\ pdfData = NoPdf
  /\ pdfBlob = NoPdf
  /\ blobUrl = NoPdf
  /\ pdfIdState = NoPdf
  /\ signatureBase64 = NoSignature
  /\ loading = FALSE
  /\ defaultFetch = "pending"
  /\ effectsDue = FALSE
  /\ upload = NoUpload
  /\ signOps = [o \in SignOps |-> NoSignOp]

\* no editor is mounted
EdIdle ==
  /\ edNow = 0
  /\ viewerWidth = 0
  /\ activePage = 0
  /\ numPages = 0
  /\ renderedSizes = <<>>
  /\ canvasOffsets = <<>>
  /\ pageSizePointsMap = <<>>
  /\ boxes = <<>>
  /\ selectedIds = {}
  /\ pdfUrlState = NoPdf
  /\ pdfData = NoPdf
  /\ pdfBlob = NoPdf
  /\ blobUrl = NoPdf
  /\ pdfIdState = NoPdf
  /\ signatureBase64 = NoSignature
  /\ loading = FALSE
  /\ defaultFetch = "idle"
  /\ effectsDue = FALSE
  /\ upload = NoUpload
  /\ signOps = [o \in SignOps |-> NoSignOp]

\* the window or the container is resized: recompute() sets viewerWidth
Recompute ==
  /\ \E w \in ViewerWidths : viewerWidth' = w
  /\ UNCHANGED <<edNow, activePage, numPages, renderedSizes, canvasOffsets,
                 pageSizePointsMap, boxes, selectedIds, docVars, notEd>>

\* react-pdf has loaded the document of fileProp: page count and page sizes
\* are read
OnDocumentLoadSuccess ==
  /\ numPages' = DocPages(fileProp)
  /\ pageSizePointsMap' = [p \in Pages |-> IF p <= DocPages(fileProp) THEN DocPageSize(p)
                                            ELSE NoSize]
  /\ UNCHANGED <<edNow, viewerWidth, activePage, renderedSizes, canvasOffsets,
                 boxes, selectedIds, docVars, notEd>>

\* the timer set after a render or a change of page or width fires: the canvas
\* of the active page, rendered at viewerWidth, is measured
MeasureActivePage ==
  /\ numPages > 0
  /\ \E off \in MeasuredOffsets :
       LET pts    == DocPageSize(activePage)
           width  == Num(viewerWidth)
           height == MathRound(FDiv(FMul(width, pts.height), pts.width))
       IN  /\ renderedSizes' = [renderedSizes EXCEPT ![activePage] =
                                   [width |-> width, height |-> height]]
           /\ canvasOffsets' = [canvasOffsets EXCEPT ![activePage] = off]
  /\ UNCHANGED <<edNow, viewerWidth, activePage, numPages, pageSizePointsMap,
                 boxes, selectedIds, docVars, notEd>>

\* a page-number button is clicked
SetActivePage ==
  /\ \E i \in 1..numPages : activePage' = i
  /\ UNCHANGED <<edNow, viewerWidth, numPages, renderedSizes, canvasOffsets,
                 pageSizePointsMap, boxes, selectedIds, docVars, notEd>>

\* "Add Signature (active page)"
AddBox ==
  /\ Len(boxes) < MaxBoxes
  /\ boxes' = Append(boxes, newBox)
  /\ UNCHANGED <<edNow, viewerWidth, activePage, numPages, renderedSizes, canvasOffsets,
                 pageSizePointsMap, selectedIds, docVars, notEd>>

\* a drag of a box of the active page stops
DragStop ==
  /\ \E i \in boxesForActivePage, d \in DragPositions :
       LET off == offsetOfPage(activePage)
       IN  boxes' = updateBox(boxes, boxes[i].id,
                              [left |-> FAdd(d.x, off.left), top |-> FAdd(d.y, off.top),
                               width |-> Undefined, height |-> Undefined])
  /\ UNCHANGED <<edNow, viewerWidth, activePage, numPages, renderedSizes, canvasOffsets,
                 pageSizePointsMap, selectedIds, docVars, notEd>>

\* a resize of a box of the active page stops, its position kept
ResizeStop ==
  /\ \E i \in boxesForActivePage, sz \in ResizeSizes :
       LET off == offsetOfPage(activePage)
           pos == [x |-> FSub(boxes[i].left, off.left), y |-> FSub(boxes[i].top, off.top)]
       IN  boxes' = updateBox(boxes, boxes[i].id,
                              [left |-> FAdd(pos.x, off.left), top |-> FAdd(pos.y, off.top),
                               width |-> sz.width, height |-> sz.height])
  /\ UNCHANGED <<edNow, viewerWidth, activePage, numPages, renderedSizes, canvasOffsets,
                 pageSizePointsMap, selectedIds, docVars, notEd>>

\* "Delete" on a box of the active page
RemoveBox ==
  /\ \E i \in boxesForActivePage :
       /\ boxes' = removeBoxFrom(boxes, boxes[i].id)
       /\ selectedIds' = selectedIds \ {boxes[i].id}
  /\ UNCHANGED <<edNow, viewerWidth, activePage, numPages, renderedSizes, canvasOffsets,
                 pageSizePointsMap, docVars, notEd>>

\* the checkbox of a box of the active page
ToggleSelect ==
  /\ \E i \in boxesForActivePage :
       selectedIds' = IF boxes[i].id \in selectedIds THEN selectedIds \ {boxes[i].id}
                      ELSE selectedIds \cup {boxes[i].id}
  /\ UNCHANGED <<edNow, viewerWidth, activePage, numPages, renderedSizes, canvasOffsets,
                 pageSizePointsMap, boxes, docVars, notEd>>

\* "Select all on page"
SelectAllOnPage ==
  /\ selectedIds' = selectedIds \cup {boxes[i].id : i \in boxesForActivePage}
  /\ UNCHANGED <<edNow, viewerWidth, activePage, numPages, renderedSizes, canvasOffsets,
                 pageSizePointsMap, boxes, docVars, notEd>>

\* "Select all"
SelectAll ==
  /\ selectedIds' = BoxIds
  /\ UNCHANGED <<edNow, viewerWidth, activePage, numPages, renderedSizes, canvasOffsets,
                 pageSizePointsMap, boxes, docVars, notEd>>

\* "Clear selection"
ClearSelection ==
  /\ selectedIds' = {}
  /\ UNCHANGED <<edNow, viewerWidth, activePage, numPages, renderedSizes, canvasOffsets,
                 pageSizePointsMap, boxes, docVars, notEd>>

\* a millisecond passes in the browser
EdTick ==
  /\ edNow < MaxClock
  /\ edNow' = edNow + 1
  /\ UNCHANGED <<viewerWidth, activePage, numPages, renderedSizes, canvasOffsets,
                 pageSizePointsMap, boxes, selectedIds, docVars, notEd>>

\* --- document sources, pagination and signing ------------------------------
\* what the handlers below never touch
geometry == <<edNow, viewerWidth, renderedSizes, canvasOffsets, pageSizePointsMap>>

\* "Prev": disabled on page 1, Math.max(1, p - 1)
PrevPage ==
  /\ activePage > 1
  /\ activePage' = (IF activePage - 1 > 1 THEN activePage - 1 ELSE 1)
  /\ UNCHANGED <<geometry, numPages, boxes, selectedIds, docVars, notEd>>

\* "Next": disabled on the last page of a known page count,
\* Math.min(numPages || p + 1, p + 1)
NextPage ==
  /\ IF numPages # 0 THEN activePage < numPages ELSE activePage < EditorPages
  /\ LET limit == IF numPages # 0 THEN numPages ELSE activePage + 1
     IN  activePage' = (IF limit < activePage + 1 THEN limit ELSE activePage + 1)
  /\ UNCHANGED <<geometry, numPages, boxes, selectedIds, docVars, notEd>>

\* "Go to": Number(value) || 1, taken when it is a page of the document
GoToPage ==
  /\ \E value \in 0..EditorPages :
       LET v == IF value = 0 THEN 1 ELSE value
       IN  /\ v >= 1 /\ (IF numPages # 0 THEN v <= numPages ELSE TRUE)
           /\ activePage' = v
  /\ UNCHANGED <<geometry, numPages, boxes, selectedIds, docVars, notEd>>

\* the effects run after a render that changed pdfBlob, pdfUrlState or pdfData:
\* the object URL follows pdfBlob; the pending fetch of the default PDF is
\* cancelled, and a new one starts only when there is no source at all
RunEffects ==
  /\ effectsDue
  /\ blobUrl' = pdfBlob
  /\ defaultFetch' = IF pdfUrlState # NoPdf \/ pdfData # NoPdf \/ pdfBlob # NoPdf
                     THEN "idle" ELSE "pending"
  /\ effectsDue' = FALSE
  /\ UNCHANGED <<geometry, activePage, numPages, boxes, selectedIds, pdfUrlState, pdfData,
                 pdfBlob, pdfIdState, signatureBase64, loading, upload, signOps, notEd>>

\* axios.get(defaultPdf) answers before the effect's cleanup has set cancelled
FetchDone ==
  /\ defaultFetch = "pending"
  /\ pdfData' = DefaultPdf
  /\ defaultFetch' = "idle"
  /\ effectsDue' = TRUE
  /\ UNCHANGED <<geometry, activePage, numPages, boxes, selectedIds, pdfUrlState, pdfBlob,
                 blobUrl, pdfIdState, signatureBase64, loading, upload, signOps, notEd>>

\* the pdfUrl prop names another document
NewPdfUrl ==
  /\ ~effectsDue
  /\ \E d \in UserDocs : pdfUrlState' = d
  /\ pdfData' = NoPdf
  /\ pdfBlob' = NoPdf
  /\ boxes' = <<>>
  /\ selectedIds' = {}
  /\ signatureBase64' = NoSignature
  /\ pdfIdState' = NoPdf
  /\ effectsDue' = TRUE
  /\ UNCHANGED <<geometry, activePage, numPages, blobUrl, loading, defaultFetch, upload,
                 signOps, notEd>>

\* "Load local PDF"
LoadLocalPdfFile ==
  /\ ~effectsDue
  /\ \E d \in UserDocs : pdfBlob' = d
  /\ pdfUrlState' = NoPdf
  /\ pdfIdState' = NoPdf
  /\ boxes' = <<>>
  /\ selectedIds' = {}
  /\ signatureBase64' = NoSignature
  /\ effectsDue' = TRUE
  /\ UNCHANGED <<geometry, activePage, numPages, pdfData, blobUrl, loading, defaultFetch,
                 upload, signOps, notEd>>

\* "Upload PDF" with a PDF file: the hash is computed and check-pdf is asked
UploadPdfFile ==
  /\ ~effectsDue
  /\ upload.pc = "idle"
  /\ \E d \in UserDocs : upload' = [pc |-> "checking", file |-> d]
  /\ UNCHANGED <<geometry, activePage, numPages, boxes, selectedIds, pdfUrlState, pdfData,
                 pdfBlob, blobUrl, pdfIdState, signatureBase64, loading, defaultFetch,
                 effectsDue, signOps, notEd>>

\* what an upload and a load of the existing server PDF both set
serverDocumentLoaded ==
  /\ pdfUrlState' = upload.file
  /\ pdfIdState' = upload.file
  /\ pdfData' = NoPdf
  /\ pdfBlob' = NoPdf
  /\ boxes' = <<>>
  /\ selectedIds' = {}
  /\ signatureBase64' = NoSignature
  /\ effectsDue' = TRUE
  /\ upload' = NoUpload
  /\ UNCHANGED <<geometry, activePage, numPages, blobUrl, loading, defaultFetch, signOps,
                 notEd>>

\* check-pdf knows the hash and the user chooses to load the existing file
LoadExistingPdf ==
  /\ upload.pc = "checking"
  /\ serverDocumentLoaded

\* check-pdf does not know the hash, fails, or the user declines: the file is
\* posted to upload-pdf
UploadPosts ==
  /\ upload.pc = "checking"
  /\ upload' = [upload EXCEPT !.pc = "posting"]
  /\ UNCHANGED <<geometry, activePage, numPages, boxes, selectedIds, pdfUrlState, pdfData,
                 pdfBlob, blobUrl, pdfIdState, signatureBase64, loading, defaultFetch,
                 effectsDue, signOps, notEd>>

\* upload-pdf answers success
UploadSucceeds ==
  /\ upload.pc = "posting"
  /\ serverDocumentLoaded

\* upload-pdf answers without success or the request fails
UploadFails ==
  /\ upload.pc = "posting"
  /\ upload' = NoUpload
  /\ UNCHANGED <<geometry, activePage, numPages, boxes, selectedIds, pdfUrlState, pdfData,
                 pdfBlob, blobUrl, pdfIdState, signatureBase64, loading, defaultFetch,
                 effectsDue, signOps, notEd>>

\* "Capture Signature"
CaptureSignature ==
  /\ signatureBase64 = NoSignature
  /\ signatureBase64' = "drawn"
  /\ UNCHANGED <<geometry, activePage, numPages, boxes, selectedIds, pdfUrlState, pdfData,
                 pdfBlob, blobUrl, pdfIdState, loading, defaultFetch, effectsDue, upload,
                 signOps, notEd>>

\* "Clear"
ClearSignature ==
  /\ signatureBase64 # NoSignature
  /\ signatureBase64' = NoSignature
  /\ UNCHANGED <<geometry, activePage, numPages, boxes, selectedIds, pdfUrlState, pdfData,
                 pdfBlob, blobUrl, pdfIdState, loading, defaultFetch, effectsDue, upload,
                 signOps, notEd>>

\* the signing call slot a click takes
freeOp == CHOOSE o \in SignOps : signOps[o] = "idle" /\ \A k \in 1..(o - 1) : signOps[k] # "idle"

\* the part signSelected and signAllPages share once their items are exported:
\* the bytes of pdfBlob are awaited before loading is set; those of pdfData are
\* at hand; otherwise the server signs pdfIdState, and without one the call
\* ends at once
startSigning ==
  /\ \E o \in SignOps : signOps[o] = "idle"
  /\ IF pdfBlob # NoPdf
     THEN /\ signOps' = [signOps EXCEPT ![freeOp] = "reading"]
          /\ UNCHANGED loading
     ELSE IF pdfData # NoPdf
     THEN /\ signOps' = [signOps EXCEPT ![freeOp] = "burning"]
          /\ loading' = TRUE
     ELSE IF pdfIdState # NoPdf
     THEN /\ signOps' = [signOps EXCEPT ![freeOp] = "posting"]
          /\ loading' = TRUE
     ELSE /\ loading' = FALSE
          /\ UNCHANGED signOps
  /\ UNCHANGED <<geometry, activePage, numPages, boxes, selectedIds, pdfUrlState, pdfData,
                 pdfBlob, blobUrl, pdfIdState, signatureBase64, defaultFetch, effectsDue,
                 upload, notEd>>

\* "Sign Selected", enabled while loading is false
SignSelected ==
  /\ ~effectsDue
  /\ ~loading
  /\ signatureBase64 # NoSignature
  /\ \E i \in 1..Len(boxes) : boxes[i].id \in selectedIds
  /\ startSigning

\* "Sign All", enabled while loading is false and there is a box
SignAllPages ==
  /\ ~effectsDue
  /\ ~loading
  /\ signatureBase64 # NoSignature
  /\ Len(boxes) > 0
  /\ startSigning

\* pdfBlob.arrayBuffer() resolves: setLoading(true), the burn-in starts
SignRead ==
  \E o \in SignOps :
    /\ signOps[o] = "reading"
    /\ signOps' = [signOps EXCEPT ![o] = "burning"]
    /\ loading' = TRUE
    /\ UNCHANGED <<geometry, activePage, numPages, boxes, selectedIds, pdfUrlState, pdfData,
                   pdfBlob, blobUrl, pdfIdState, signatureBase64, defaultFetch, effectsDue,
                   upload, notEd>>

\* the burn-in or the server's answer ends, well or not: finally setLoading(false)
SignFinishes ==
  \E o \in SignOps :
    /\ signOps[o] \in {"burning", "posting"}
    /\ signOps' = [signOps EXCEPT ![o] = NoSignOp]
    /\ loading' = FALSE
    /\ UNCHANGED <<geometry, activePage, numPages, boxes, selectedIds, pdfUrlState, pdfData,
                   pdfBlob, blobUrl, pdfIdState, signatureBase64, defaultFetch, effectsDue,
                   upload, notEd>>


EdNext ==
  \/ Recompute \/ OnDocumentLoadSuccess \/ MeasureActivePage \/ SetActivePage
  \/ AddBox \/ DragStop \/ ResizeStop \/ RemoveBox
  \/ ToggleSelect \/ SelectAllOnPage \/ SelectAll \/ ClearSelection
  \/ EdTick

\* ------------------------------------------------------------------------
\* Properties of the coordinate mapper
\* ------------------------------------------------------------------------
Tolerance == Rat(1, PointScale)

NumericBox(b) == isFinite(b.left) /\ isFinite(b.top) /\ isFinite(b.width) /\ isFinite(b.height)

PositiveSize(sz) == isFinite(sz.width) /\ isFinite(sz.height)
                    /\ FGt(sz.width, Num(0)) /\ FGt(sz.height, Num(0))

Within(a, b, tol) == FLe(FSub(a, b), tol) /\ FLe(FSub(b, a), tol)

\* the pixel box lies inside the rendered page (its width and height may be negative)
InsideRendered(b, sz) ==
  /\ NumericBox(b) /\ isFinite(sz.width) /\ isFinite(sz.height)
  /\ FLe(Num(0), b.left) /\ FLe(Num(0), b.top)
  /\ FLe(FAdd(b.left, b.width), sz.width)
  /\ FLe(FAdd(b.top, b.height), sz.height)

\* C1: for every numeric pixel box, also one partly or fully outside the
\* rendered page, the returned point box lies inside the page:
\* 0 <= x, 0 <= y, x + width <= pageW and y + height <= pageH, up to 0.01pt.
C1_PointBoxInsidePage ==
  (mapPc # "start" /\ NumericBox(mapIn.cssBox)
     /\ PositiveSize(mapIn.renderedSize) /\ PositiveSize(mapIn.pageSizePoints))
  => /\ FLe(Num(0), mapOut.pdfBox.x)
     /\ FLe(Num(0), mapOut.pdfBox.y)
     /\ FLe(FAdd(mapOut.pdfBox.x, mapOut.pdfBox.width),
             FAdd(mapIn.pageSizePoints.width, Tolerance))
     /\ FLe(FAdd(mapOut.pdfBox.y, mapOut.pdfBox.height),
             FAdd(mapIn.pageSizePoints.height, Tolerance))

\* C2: round trip: mapping the pixel box rebuilt from the returned fractions
\* (frac * rendered size) gives a point box whose four fields are each within
\* 0.01pt of the first point box, for any numeric pixel box.
C2_RoundTripReproducesPointBox ==
  (mapPc = "done" /\ NumericBox(mapIn.cssBox)
     /\ PositiveSize(mapIn.renderedSize) /\ PositiveSize(mapIn.pageSizePoints))
  => /\ Within(mapRt.pdfBox.x, mapOut.pdfBox.x, Tolerance)
     /\ Within(mapRt.pdfBox.y, mapOut.pdfBox.y, Tolerance)
     /\ Within(mapRt.pdfBox.width, mapOut.pdfBox.width, Tolerance)
     /\ Within(mapRt.pdfBox.height, mapOut.pdfBox.height, Tolerance)

Missing(v) == v.t # "number"

ZeroIfMissing(v) == IF Missing(v) THEN Num(0) ELSE v

OneIfMissing(v) == IF Missing(v) THEN Num(1) ELSE v

BoxMissingAsZero(b) ==
  [left |-> ZeroIfMissing(b.left), top |-> ZeroIfMissing(b.top),
   width |-> ZeroIfMissing(b.width), height |-> ZeroIfMissing(b.height)]

SizeMissingAsOne(sz) == [width |-> OneIfMissing(sz.width), height |-> OneIfMissing(sz.height)]

HasMissingField(in) ==
  \/ \E f \in {"left", "top", "width", "height"} : Missing(in.cssBox[f])
  \/ \E f \in {"width", "height"} :
        Missing(in.renderedSize[f]) \/ Missing(in.pageSizePoints[f])

\* C5: a missing or non-numeric field of the pixel box counts exactly as 0 and
\* one of the rendered size or page size exactly as 1: the whole result equals
\* the result for the input with those fields replaced.
C5_MissingFieldsDefault ==
  (mapPc # "start" /\ HasMissingField(mapIn))
  => mapOut = cssBoxToPdfPoints(BoxMissingAsZero(mapIn.cssBox),
                                SizeMissingAsOne(mapIn.renderedSize),
                                SizeMissingAsOne(mapIn.pageSizePoints))

NonPositive(v) == isFinite(v) /\ ~FGt(v, Num(0))

OneIfNonPositive(v) == IF NonPositive(v) THEN Num(1) ELSE v

SizeNonPositiveAsOne(sz) ==
  [width |-> OneIfNonPositive(sz.width), height |-> OneIfNonPositive(sz.height)]

HasNonPositiveDim(in) ==
  \E f \in {"width", "height"} :
     NonPositive(in.renderedSize[f]) \/ NonPositive(in.pageSizePoints[f])

AllFinite(out) ==
  /\ \A f \in {"x", "y", "width", "height"} : isFinite(out.pdfBox[f])
  /\ \A f \in {"x_frac", "y_frac", "w_frac", "h_frac"} : isFinite(out.fractions[f])

\* C6: a rendered-size or page-size dimension that is zero or negative gives
\* the same result as the dimension 1, and every field of the result is finite.
C6_NonPositiveSizeIsOne ==
  (mapPc # "start" /\ HasNonPositiveDim(mapIn))
  => /\ mapOut = cssBoxToPdfPoints(mapIn.cssBox,
                                   SizeNonPositiveAsOne(mapIn.renderedSize),
                                   SizeNonPositiveAsOne(mapIn.pageSizePoints))
     /\ AllFinite(mapOut)

\* a box two pixels wide on a page rendered -1 pixels wide fills the unit width
C6_Witness ==
  /\ mapPc = "mapped"
  /\ mapIn.renderedSize.width = Num(-1)
  /\ mapIn.pageSizePoints.height = Num(-1)
  /\ mapIn.cssBox.width = Num(MaxPx)
  /\ mapIn.cssBox.top = Num(0) /\ mapIn.cssBox.height = Num(0)
  /\ mapOut.fractions.w_frac = Num(1)
  /\ mapOut.pdfBox.y = Num(1)

\* C10: for a finite pixel box with 0 <= left, 0 <= top, left + width <= renderW
\* and top + height <= renderH, the four returned fractions lie in [0,1].
C10_FractionsInUnitInterval ==
  (mapPc # "start" /\ InsideRendered(mapIn.cssBox, mapIn.renderedSize))
  => \A f \in {"x_frac", "y_frac", "w_frac", "h_frac"} :
        FLe(Num(0), mapOut.fractions[f]) /\ FLe(mapOut.fractions[f], Num(1))

\* a box inside a page rendered (MaxPx+1) square, with fractions strictly inside (0,1)
C10_Witness ==
  /\ mapPc = "mapped"
  /\ InsideRendered(mapIn.cssBox, mapIn.renderedSize)
  /\ mapIn.renderedSize.width = Num(MaxPx + 1)
  /\ mapIn.cssBox.left = Num(1) /\ mapIn.cssBox.width = Num(1)
  /\ mapIn.cssBox.top = Num(1) /\ mapIn.cssBox.height = Num(1)
  /\ mapOut.fractions.x_frac = toFixed6(Rat(1, MaxPx + 1))
  /\ FGt(mapOut.fractions.h_frac, Num(0))

\* C11: the pixel box {left:0, top:0, width:100, height:200} on a 200 x 400
\* rendering of a 595 x 842 page maps to fractions 0, 0, 0.5, 0.5 and to the
\* point box {x:0, y:421, width:297.5, height:421}.
C11_QuarterPageExample ==
  (mapPc # "start" /\ mapIn = ExampleInput)
  => /\ mapOut.fractions = [x_frac |-> Num(0), y_frac |-> Num(0),
                            w_frac |-> Rat(1, 2), h_frac |-> Rat(1, 2)]
     /\ mapOut.pdfBox = [x |-> Num(0), y |-> Num(421),
                         width |-> Rat(595, 2), height |-> Num(421)]

\* the example has been mapped
C11_Witness ==
  /\ mapPc = "mapped" /\ mapIn = ExampleInput
  /\ mapOut.pdfBox.y = Num(421) /\ mapOut.fractions.h_frac = Rat(1, 2)

\* the pixel box touches the top of the rendering and is as high as it
FullHeight(in) ==
  /\ isFinite(in.renderedSize.height) /\ isFinite(in.pageSizePoints.height)
  /\ in.cssBox.top = Num(0)
  /\ in.cssBox.height = in.renderedSize.height

\* C12 as claimed: for every rendered size and page size, a pixel box with
\* top = 0 and height = renderH maps to y = 0 and height = pageH.
C12_FullHeightSpansPage ==
  (mapPc # "start" /\ FullHeight(mapIn))
  => /\ mapOut.pdfBox.y = Num(0)
     /\ mapOut.pdfBox.height = mapIn.pageSizePoints.height

\* C12 as amended: for every rendered size and page size of positive
\* dimensions, a pixel box with top = 0 and height = renderH maps to y = 0
\* and to the page height rounded to 0.01pt.
C12_FullHeightSpansRoundedPage ==
  (mapPc # "start" /\ FullHeight(mapIn)
     /\ PositiveSize(mapIn.renderedSize) /\ PositiveSize(mapIn.pageSizePoints))
  => /\ mapOut.pdfBox.y = Num(0)
     /\ mapOut.pdfBox.height = rnd(mapIn.pageSizePoints.height)

\* a full-height box on the A4 page of 841.8898pt: height 841.89
C12_Witness ==
  /\ mapPc = "mapped" /\ FullHeight(mapIn)
  /\ mapIn.renderedSize = GoodRendered /\ mapIn.pageSizePoints = A4Page
  /\ mapOut.pdfBox.y = Num(0) /\ mapOut.pdfBox.height = Rat(84189, 100)

\* the pixel box lies inside the rendered page and has no negative extent
FullyInside(b, sz) ==
  InsideRendered(b, sz) /\ FLe(Num(0), b.width) /\ FLe(Num(0), b.height)

\* C16: for finite inputs with positive sizes the values before rounding are
\* x_pts = clamp01(left/renderW)*pageW, width_pts = clamp01(width/renderW)*pageW,
\* height_pts = clamp01(height/renderH)*pageH and
\* y_pts = clamp01((renderH - top - height)/renderH)*pageH; for a box fully
\* inside the rendered page y_pts + height_pts = (1 - y_frac)*pageH.
C16_PointsBeforeRounding ==
  (mapPc # "start" /\ NumericBox(mapIn.cssBox)
     /\ PositiveSize(mapIn.renderedSize) /\ PositiveSize(mapIn.pageSizePoints))
  => LET v == beforeRounding(mapIn.cssBox, mapIn.renderedSize, mapIn.pageSizePoints)
         b == mapIn.cssBox
         r == mapIn.renderedSize
         p == mapIn.pageSizePoints
     IN  /\ v.x_pts = FMul(clamp01(FDiv(b.left, r.width)), p.width)
         /\ v.width_pts = FMul(clamp01(FDiv(b.width, r.width)), p.width)
         /\ v.height_pts = FMul(clamp01(FDiv(b.height, r.height)), p.height)
         /\ v.y_pts = FMul(clamp01(FDiv(FSub(FSub(r.height, b.top), b.height), r.height)),
                           p.height)
         /\ FullyInside(b, r)
               => FAdd(v.y_pts, v.height_pts) = FMul(FSub(Num(1), v.y_frac), p.height)

\* a box one pixel below the top of the 3 x 3 rendering, one pixel high
C16_Witness ==
  /\ mapPc = "mapped"
  /\ mapIn.cssBox = [left |-> Num(0), top |-> Num(1), width |-> Num(1), height |-> Num(1)]
  /\ mapIn.renderedSize = GoodRendered /\ mapIn.pageSizePoints = GoodPage
  /\ FullyInside(mapIn.cssBox, mapIn.renderedSize)
  /\ beforeRounding(mapIn.cssBox, mapIn.renderedSize, mapIn.pageSizePoints).y_pts
        = Rat(842, 3)

\* a is a whole multiple of 1/scale
IsMultipleOf(a, scale) == a.d # 0 /\ scale % a.d = 0

\* a is the multiple of 1/scale nearest to b
RoundedTo(a, b, scale) == IsMultipleOf(a, scale) /\ Within(a, b, Rat(1, 2 * scale))

\* C17: every field of the returned point box is a multiple of 0.01 within
\* 0.005 of its value before rounding, and every returned fraction is a
\* multiple of 0.000001 within 0.0000005 of its value before rounding.
C17_RoundedToHundredthsAndMillionths ==
  mapPc # "start"
  => LET v == beforeRounding(mapIn.cssBox, mapIn.renderedSize, mapIn.pageSizePoints)
     IN  /\ RoundedTo(mapOut.pdfBox.x, v.x_pts, PointScale)
         /\ RoundedTo(mapOut.pdfBox.y, v.y_pts, PointScale)
         /\ RoundedTo(mapOut.pdfBox.width, v.width_pts, PointScale)
         /\ RoundedTo(mapOut.pdfBox.height, v.height_pts, PointScale)
         /\ RoundedTo(mapOut.fractions.x_frac, v.x_frac, FracScale)
         /\ RoundedTo(mapOut.fractions.y_frac, v.y_frac, FracScale)
         /\ RoundedTo(mapOut.fractions.w_frac, v.w_frac, FracScale)
         /\ RoundedTo(mapOut.fractions.h_frac, v.h_frac, FracScale)

\* a third of the page: 198.33pt from 198.333..., 0.333333 from a third
C17_Witness ==
  /\ mapPc = "mapped"
  /\ mapIn.cssBox = [left |-> Num(1), top |-> Num(0), width |-> Num(2), height |-> Num(2)]
  /\ mapIn.renderedSize = GoodRendered /\ mapIn.pageSizePoints = GoodPage
  /\ mapOut.pdfBox.x = Rat(19833, 100)
  /\ mapOut.fractions.x_frac = Rat(333333, FracScale)
  /\ mapOut.pdfBox.height = Rat(56133, 100)

\* ------------------------------------------------------------------------
\* Properties of the fit step
\* ------------------------------------------------------------------------
PositiveFitInput(in) ==
  /\ FGt(in.image.width, Num(0)) /\ FGt(in.image.height, Num(0))
  /\ FGt(in.pdfBox.width, Num(0)) /\ FGt(in.pdfBox.height, Num(0))

Half(a) == FDiv(a, Num(2))

ContainedAndCentred(r, box) ==
  /\ FLe(box.x, r.x)
  /\ FLe(FAdd(r.x, r.width), FAdd(box.x, box.width))
  /\ FLe(box.y, r.y)
  /\ FLe(FAdd(r.y, r.height), FAdd(box.y, box.height))
  /\ FAdd(r.x, Half(r.width)) = FAdd(box.x, Half(box.width))
  /\ FAdd(r.y, Half(r.height)) = FAdd(box.y, Half(box.height))

\* C3: for an image and a target box of positive width and height, the
\* rectangle handed to drawImage lies inside the target box and has the
\* box's centre.
C3_FitRectInsideBox ==
  (fitSite # "none" /\ PositiveFitInput(fitIn))
  => /\ Len(fitDrawn) = 1
     /\ ContainedAndCentred(fitDrawn[1], fitIn.pdfBox)

\* a 2x1 image burnt by the browser into the 2x2 box at (1,1) is letterboxed
C3_Witness ==
  /\ fitSite = "burnInLocallyMultiple"
  /\ fitIn.image = [width |-> Num(2), height |-> Num(1)]
  /\ fitIn.pdfBox = [x |-> Num(1), y |-> Num(1), width |-> Num(2), height |-> Num(2)]
  /\ fitDrawn = <<[x |-> Num(1), y |-> Rat(3, 2), width |-> Num(2), height |-> Num(1)]>>

DegenerateFitInput(in) ==
  in.image.height = Num(0) \/ in.pdfBox.height = Num(0) \/ in.pdfBox.width = Num(0)

FiniteRect(r) == isFinite(r.x) /\ isFinite(r.y) /\ isFinite(r.width) /\ isFinite(r.height)

\* C4: given an image of height 0 or a target box of height or width 0, the
\* fit step reports an invalid-geometry error and draws nothing; drawImage
\* never receives a NaN or infinite x, y, width or height.
C4_DegenerateFitRejected ==
  /\ (fitSite # "none" /\ DegenerateFitInput(fitIn))
        => (fitError # "none" /\ fitDrawn = <<>>)
  /\ \A i \in 1..Len(fitDrawn) : FiniteRect(fitDrawn[i])

\* the reference rule: width-bound when the image is relatively wider than
\* the box, height-bound otherwise, and centred in the box
fitReference(image, box) ==
  LET imageRatio == FDiv(image.width, image.height)
      boxRatio   == FDiv(box.width, box.height)
      drawWidth  == IF FGt(imageRatio, boxRatio) THEN box.width
                    ELSE FMul(box.height, imageRatio)
      drawHeight == IF FGt(imageRatio, boxRatio) THEN FDiv(box.width, imageRatio)
                    ELSE box.height
  IN  [x |-> FAdd(box.x, Half(FSub(box.width, drawWidth))),
       y |-> FAdd(box.y, Half(FSub(box.height, drawHeight))),
       width |-> drawWidth, height |-> drawHeight]

\* C13: for an image and a box of positive dimensions the fit step draws the
\* rectangle of the reference rule; a 200 x 100 image in the box
\* {x:10, y:10, width:50, height:50} is drawn at {x:10, y:22.5, width:50, height:25}.
C13_FitMatchesReference ==
  (fitSite \notin {"none", "idle"} /\ PositiveFitInput(fitIn))
  => /\ Len(fitDrawn) = 1
     /\ fitDrawn[1] = fitReference(fitIn.image, fitIn.pdfBox)
     /\ fitIn = ExampleFit
           => fitDrawn[1] = [x |-> Num(10), y |-> Rat(45, 2),
                             width |-> Num(50), height |-> Num(25)]

\* the browser has burnt the example
C13_Witness ==
  /\ fitSite = "burnInLocallyMultiple" /\ fitIn = ExampleFit
  /\ fitDrawn = <<[x |-> Num(10), y |-> Rat(45, 2), width |-> Num(50), height |-> Num(25)]>>

SameRatio(in) ==
  FDiv(in.image.width, in.image.height) = FDiv(in.pdfBox.width, in.pdfBox.height)

\* C14: when the image and the box have the same aspect ratio (positive
\* dimensions), the fit step draws exactly the box.
C14_EqualRatioFillsBox ==
  (fitSite \notin {"none", "idle"} /\ PositiveFitInput(fitIn) /\ SameRatio(fitIn))
  => /\ Len(fitDrawn) = 1
     /\ fitDrawn[1] = fitIn.pdfBox

\* sign-pdf-multi has drawn a 2 x 1 image into the 2 x 1 box at (1, 1)
C14_Witness ==
  /\ fitSite = "sign-pdf-multi" /\ SameRatio(fitIn)
  /\ fitIn.image = [width |-> Num(2), height |-> Num(1)]
  /\ fitIn.pdfBox = [x |-> Num(1), y |-> Num(1), width |-> Num(2), height |-> Num(1)]
  /\ fitDrawn = <<fitIn.pdfBox>>

\* C15: for the same image and the same item, the browser's burn and the
\* three server endpoints draw the same rectangle, on the item's page.
C15_ClientAndServerFitAgree ==
  fitSite \notin {"none", "idle"}
  => /\ Len(fitDrawn) = 1
     /\ fitPages = <<fitIn.pageIndex>>
     /\ fitDrawn[1] = burnInLocallyFit(fitIn.image, fitIn.pdfBox)
     /\ fitDrawn[1] = signPdfFit(fitIn.image, fitIn.pdfBox)
     /\ fitDrawn[1] = signPdfMultiFit(fitIn.image, fitIn.pdfBox)
     /\ fitDrawn[1] = signPdfHandlerFit(fitIn.image, fitIn.pdfBox)

\* signPdfHandler has drawn a 1 x 2 image into the 3 x 3 box at (0, 1):
\* height-bound, 1.5 wide
C15_Witness ==
  /\ fitSite = "signPdfHandler"
  /\ fitIn.image = [width |-> Num(1), height |-> Num(2)]
  /\ fitIn.pdfBox = [x |-> Num(0), y |-> Num(1), width |-> Num(3), height |-> Num(3)]
  /\ fitPages = <<fitIn.pageIndex>>
  /\ fitDrawn = <<[x |-> Rat(3, 4), y |-> Num(1), width |-> Rat(3, 2), height |-> Num(3)]>>

\* ------------------------------------------------------------------------
\* Properties of the server
\* ------------------------------------------------------------------------
IsSign(q) == q.kind \in SignKinds

Succeeded(q) == q.resp.status = 200

\* C7: uploads are deduplicated by content hash: the UploadedDocument
\* collection never holds two records with one pdfHash, and an upload
\* answered "exists" returns the pdfId and url of the record with its hash.
C7_UploadsDeduplicated ==
  /\ \A i, j \in 1..Len(uploadedDocs) :
        i # j => uploadedDocs[i].pdfHash # uploadedDocs[j].pdfHash
  /\ \A r \in Reqs :
        (reqs[r].kind = "upload" /\ Succeeded(reqs[r]) /\ reqs[r].resp.exists)
        => \E i \in 1..Len(uploadedDocs) :
              /\ uploadedDocs[i].pdfHash = reqs[r].pdfHash
              /\ uploadedDocs[i].pdfId = reqs[r].resp.pdfId
              /\ uploadedDocs[i].pdfPath = reqs[r].resp.url

\* the stored audit records that carry the hashes and the output of q's response
auditRecordsOf(q) ==
  {i \in 1..Len(auditDocs) :
     /\ auditDocs[i].pdfId = q.pdfId
     /\ auditDocs[i].pdfPathSigned.file = q.resp.url.file
     /\ auditDocs[i].beforeHash = q.resp.beforeHash
     /\ auditDocs[i].afterHash = q.resp.afterHash}

\* C8 as claimed: once a signing that answered success has nothing left in
\* flight, its audit records are stored, one per signed item.
C8_SuccessHasAuditRecord ==
  \A r \in Reqs :
    (IsSign(reqs[r]) /\ Succeeded(reqs[r]) /\ reqs[r].db # "pending")
    => Cardinality(auditRecordsOf(reqs[r])) >= Len(reqs[r].items)

\* C8 as amended: a signing that answered success has issued an audit write
\* of one record per signed item, each with the response's beforeHash and
\* afterHash; the records are stored once that write has succeeded, and
\* signPdfHandler under BLOCKING_DB_SAVE answers success only after it has.
C8_SuccessIssuesAuditWrite ==
  \A r \in Reqs :
    (IsSign(reqs[r]) /\ Succeeded(reqs[r]))
    => LET q == reqs[r]
       IN  /\ q.db \in {"pending", "ok", "failed"}
           /\ Len(q.docs) = Len(q.items)
           /\ \A i \in 1..Len(q.docs) :
                 /\ q.docs[i].beforeHash = q.resp.beforeHash
                 /\ q.docs[i].afterHash = q.resp.afterHash
                 /\ q.docs[i].pageIndex = q.items[i].pageIndex
           /\ q.db = "ok" => Cardinality(auditRecordsOf(q)) >= Len(q.items)
           /\ (q.kind = "signPdfHandler" /\ blockingDbSave) => q.db = "ok"

\* a sign-pdf-multi of two items answered success and both records are stored
C8_Witness ==
  \E r \in Reqs :
    /\ reqs[r].kind = "sign-pdf-multi" /\ Succeeded(reqs[r])
    /\ Len(reqs[r].items) = 2
    /\ reqs[r].db = "ok"
    /\ Cardinality(auditRecordsOf(reqs[r])) = 2
    /\ reqs[r].resp.afterHash # reqs[r].resp.beforeHash

\* C9: two different signing operations never write to the same output file
\* name, two concurrent requests for one pdfId included.
C9_DistinctOutputNames ==
  \A r1, r2 \in Reqs :
    (r1 # r2 /\ IsSign(reqs[r1]) /\ IsSign(reqs[r2])
       /\ reqs[r1].outName # NoFile /\ reqs[r2].outName # NoFile)
    => reqs[r1].outName # reqs[r2].outName

\* the file the record's pdfPath names is stored and hashes to the record's pdfHash
RecordMatchesFile(d) ==
  /\ d.pdfPath.file \in DOMAIN storage
  /\ sha256Hex(storage[d.pdfPath.file]) = d.pdfHash

\* C21: in every state of the server, for every UploadedDocument record the
\* file at its pdfPath exists in storage and the SHA-256 of the file's bytes
\* is the record's pdfHash.
C21_UploadRecordMatchesStoredFile ==
  \A i \in 1..Len(uploadedDocs) : RecordMatchesFile(uploadedDocs[i])

\* no upload so far carried a pdfHash field that is not the hash of its file
HonestUploadsMatchStoredFile ==
  (\A r \in Reqs : reqs[r].bodyHash \in {NoHash, sha256Hex(reqs[r].file)})
  => C21_UploadRecordMatchesStoredFile

\* the request was answered with status 400 or 500
Rejected(q) == q.pc = "done" /\ q.resp.status \in {400, 500}

\* nothing of request q is in storage or in the audit collection
LeavesNoTrace(q) ==
  /\ q.outName \notin DOMAIN storage
  /\ \A i \in 1..Len(auditDocs) :
        ~(auditDocs[i].pdfId = q.pdfId /\ auditDocs[i].pdfPathSigned.file = q.outName)

\* C26: a signing request answered 400 or 500 has written no output file to
\* storage and created no audit record.
C26_RejectedSigningLeavesServerUnchanged ==
  \A r \in Reqs : (IsSign(reqs[r]) /\ Rejected(reqs[r])) => LeavesNoTrace(reqs[r])

\* the same for every handler that does not wait for the audit write
RejectedWithoutWaitLeavesNoTrace ==
  \A r \in Reqs :
    (IsSign(reqs[r]) /\ Rejected(reqs[r])
       /\ ~(reqs[r].kind = "signPdfHandler" /\ blockingDbSave))
    => LeavesNoTrace(reqs[r])

\* the step is a step of the handler of a signing request
SigningStep == \E r \in Reqs : reqs'[r] # reqs[r] /\ IsSign(reqs'[r])

\* the stored files <pdfId>.pdf of the UploadedDocument records
OriginalFiles ==
  {n \in DOMAIN storage :
     \E i \in 1..Len(uploadedDocs) : n = origPathOf(uploadedDocs[i].pdfId)}

\* C27: no step of a signing request changes an UploadedDocument record or
\* the bytes of a stored original file <pdfId>.pdf.
C27_SigningKeepsOriginals ==
  [][SigningStep
     => /\ uploadedDocs' = uploadedDocs
        /\ \A n \in OriginalFiles : n \in DOMAIN storage' /\ storage'[n] = storage[n]]_vars

\* the same while no upload was named as a stored document with -signed appended
SigningKeepsPlainlyNamedOriginals ==
  [][(SigningStep /\ \A r \in Reqs : reqs[r].originalname \in {<<>>, <<Word("doc")>>})
     => /\ uploadedDocs' = uploadedDocs
        /\ \A n \in OriginalFiles : n \in DOMAIN storage' /\ storage'[n] = storage[n]]_vars

\* ------------------------------------------------------------------------
\* Properties of the editor
\* ------------------------------------------------------------------------
SamePointBox(a, b) ==
  /\ Within(a.x, b.x, Rat(1, PointScale))
  /\ Within(a.y, b.y, Rat(1, PointScale))
  /\ Within(a.width, b.width, Rat(1, PointScale))
  /\ Within(a.height, b.height, Rat(1, PointScale))

\* the step changes the measured rendered size of page p
RenderedSizeChanges(p) ==
  /\ renderedSizes[p] # NoSize
  /\ renderedSizes'[p] # renderedSizes[p]

\* C18: when the measured rendered size of a page changes and a box of that
\* page is not edited, the point box exportCoords gives for the box after the
\* change is within 0.01pt of the one it gave before the change.
C18_GeometrySurvivesResize ==
  [][\A i \in 1..Len(boxes) :
       (/\ Len(boxes') = Len(boxes)
        /\ boxes'[i] = boxes[i]
        /\ RenderedSizeChanges(boxes[i].pageIndex))
       => LET osAfter  == getPageOffsetAndSize(boxes[i].pageIndex)'
              ptsAfter == pagePtsOf(boxes[i].pageIndex)'
          IN  SamePointBox(exportCoords(boxes[i]).pdfBox,
                           exportCoordsFrom(boxes[i], osAfter, ptsAfter).pdfBox)]_vars

SameFractions(b, f) ==
  /\ Within(b.x_frac, f.x_frac, Rat(1, FracScale))
  /\ Within(b.y_frac, f.y_frac, Rat(1, FracScale))
  /\ Within(b.w_frac, f.w_frac, Rat(1, FracScale))
  /\ Within(b.h_frac, f.h_frac, Rat(1, FracScale))

\* C19: in every state of the editor the fractions stored in a box are the
\* fractions exportCoords returns for it (to the sixth decimal).
C19_StoredFractionsMatchExport ==
  \A i \in 1..Len(boxes) : SameFractions(boxes[i], exportCoords(boxes[i]).fractions)

\* every selected id is the id of a box
SelectionWithinBoxes == selectedIds \subseteq BoxIds

\* no two boxes share an id
DistinctBoxIds ==
  \A i, j \in 1..Len(boxes) : i # j => boxes[i].id # boxes[j].id

\* C20: in every state of the editor every selected id is the id of a box
\* in boxes, and the ids of the boxes are pairwise distinct.
C20_SelectionAndIdsWellFormed == SelectionWithinBoxes /\ DistinctBoxIds

\* ------------------------------------------------------------------------
\* Specifications
\* ------------------------------------------------------------------------
MapSpecInit == MapInit /\ FitIdle /\ SrvIdle /\ EdIdle

\* the coordinate mapper alone
MapSpec == MapSpecInit /\ [][MapNext]_vars

FitSpecInit == MapIdle /\ FitInit /\ SrvIdle /\ EdIdle

\* the fit step alone
FitSpec == FitSpecInit /\ [][FitNext]_vars

SrvSpecInit == MapIdle /\ FitIdle /\ SrvInit /\ EdIdle

\* the server alone
SrvSpec == SrvSpecInit /\ [][SrvNext]_vars

EdSpecInit == MapIdle /\ FitIdle /\ SrvIdle /\ EdInit

\* the editor alone
EdSpec == EdSpecInit /\ [][EdNext]_vars

\* the editor's pages and the documents it loads
PageNext ==
  \/ OnDocumentLoadSuccess \/ SetActivePage \/ PrevPage \/ NextPage \/ GoToPage
  \/ RunEffects \/ FetchDone \/ NewPdfUrl \/ LoadLocalPdfFile
  \/ UploadPdfFile \/ LoadExistingPdf \/ UploadPosts \/ UploadSucceeds \/ UploadFails

PageSpec == EdSpecInit /\ [][PageNext]_vars

\* the editor's documents, boxes, signature and signing calls
DocNext ==
  \/ AddBox \/ SelectAll
  \/ RunEffects \/ FetchDone \/ NewPdfUrl \/ LoadLocalPdfFile
  \/ UploadPdfFile \/ LoadExistingPdf \/ UploadPosts \/ UploadSucceeds \/ UploadFails
  \/ CaptureSignature \/ ClearSignature
  \/ SignSelected \/ SignAllPages \/ SignRead \/ SignFinishes

DocSpec == EdSpecInit /\ [][DocNext]_vars

\* ---------------------------------------------------------------------------
\* Properties of the editor's documents, pages and signing calls
\* ---------------------------------------------------------------------------

\* the source a signing call would take now is the document on screen
SourceIsShown == signSource # NoPdf => signSource = fileProp

\* C22: once the effects have run, the source signSelected and signAllPages
\* choose (pdfBlob, else pdfData, else the server document pdfIdState) is the
\* PDF that fileProp shows, also when the fetch of the default PDF answers
\* while an upload or a load of an existing server PDF takes effect.
C22_SignSourceIsDocumentShown == ~effectsDue => SourceIsShown

\* the same, except where bytes are held next to a URL: the state the late
\* answer of the default fetch leaves
SignSourceIsDocumentShownUnlessFetchOvertook ==
  (~effectsDue /\ ~(pdfUrlState # NoPdf /\ pdfData # NoPdf)) => SourceIsShown

\* C23: whenever the page count is known, activePage is one of the pages
\* 1..numPages, after any Prev, Next, page-number click, Go-to input and load
\* of a new document.
C23_ActivePageWithinDocument == numPages # 0 => (1 <= activePage /\ activePage <= numPages)

ActivePageAtLeastOne == activePage >= 1

\* a step that changes the document loaded
DocumentChanges == pdfUrlState' # pdfUrlState \/ pdfBlob' # pdfBlob \/ pdfIdState' # pdfIdState

\* a step in which a signing call starts
SigningStarts == \E o \in SignOps : signOps[o] = "idle" /\ signOps'[o] # "idle"

\* C24: every change of the loaded document leaves boxes empty, selectedIds
\* empty and signatureBase64 null, so that a signing call applies boxes and
\* signature to the document they were placed on: the one shown.
C24_DocumentChangeResetsPlacement ==
  [][/\ DocumentChanges => (boxes' = <<>> /\ selectedIds' = {} /\ signatureBase64' = NoSignature)
     /\ SigningStarts => SourceIsShown]_vars

\* the reset alone
DocumentChangeClearsPlacement ==
  [][DocumentChanges => (boxes' = <<>> /\ selectedIds' = {} /\ signatureBase64' = NoSignature)]_vars

\* a signing call is between the start of its signing work and its completion
SigningInFlight == \E o \in SignOps : signOps[o] \in {"burning", "posting"}

\* C25: loading is true exactly while a signSelected or signAllPages call is
\* between the start of its signing work and its completion; the completion
\* of one call never clears it while another is running.
C25_LoadingWhileSigning == loading <=> SigningInFlight

\* loading is never left true without a call
LoadingOnlyWhileCallsRun == loading => SigningInFlight


====
